---- MODULE Spec2Model ----
(***************************************************************************)
(* Resource-governance layer of the transit API: the sliding-window rate   *)
(* limiter (utils/rate_limiting.py) and the TTL cache (utils/caching.py).  *)
(* Request threads share one RateLimiter and one InMemoryCache and one     *)
(* wall clock.                                                             *)
(***************************************************************************)
EXTENDS Integers, Naturals, Sequences, FiniteSets, TLC

VARIABLES
    usage,        \* RateLimiter._usage : client_id -> deque of UsageRecord
    limits,       \* RateLimiter._limits : category -> RateLimit
    lock,         \* RateLimiter._lock : the thread holding it, or NoThread
    now,          \* time.time(), in whole seconds
    pc,           \* position of each request thread inside check_rate_limit
    call,         \* the locals of each thread's check_rate_limit call
    result,       \* the (is_allowed, rate_limit_info) a finished call returned
    nCalls,       \* history: calls finished by the client of the burst
    cache,        \* InMemoryCache._cache : cache_key -> CacheEntry
    stats,        \* InMemoryCache._stats
    default_ttl,  \* InMemoryCache.default_ttl
    ret,          \* the last cache operation and what it returned
    lastSet,      \* history: value of the last set of each key at this instant
    memo,         \* history: the calls made through a cached(...) wrapper
    worker,       \* position and locals of each thread working on the store
    sweeper,      \* CacheMiddleware: last_cleanup, the sweep tasks, the requests
    served,       \* what RateLimitMiddleware did with each thread's request
    past          \* history: window rejections since the last admission, the
                  \* categories admitted, when the last call read its counts

vars == <<usage, limits, lock, now, pc, call, result, nCalls,
          cache, stats, default_ttl, ret, lastSet, memo, worker,
          sweeper, served, past>>
limiterVars == <<usage, limits, lock, pc, call, result, nCalls>>
cacheVars == <<cache, stats, default_ttl, ret, lastSet, memo, worker,
               sweeper, served, past>>

(***************************************************************************)
(* Bounds of the exploration.                                              *)
(***************************************************************************)
ConcThreads == 6
MaxLedger == 3
BurstCalls == 61
MaxTime == 90001
MaxSets == 2
MaxGets == 2

(***************************************************************************)
(* Optional[...] values: None is the empty tuple, a present value x is     *)
(* the one-element tuple <<x>>.                                            *)
(***************************************************************************)
None == <<>>
Some(x) == <<x>>
Truthy(opt) == opt # None /\ opt[1] # 0
OrZero(opt) == IF Truthy(opt) THEN opt[1] ELSE 0

Max(a, b) == IF a >= b THEN a ELSE b

(***************************************************************************)
(* The clock.  time.time() is sampled at instants that sit on and just     *)
(* after the minute and hour boundaries, just after the day boundary and   *)
(* beyond the retention horizon (25 h); it never runs backward.            *)
(***************************************************************************)
MinuteWindow == 60
HourWindow == 3600
DayWindow == 86400
RetentionSeconds == 25 * 3600

Instants == {0, MinuteWindow, MinuteWindow + 1, HourWindow, HourWindow + 1,
             DayWindow + 1} \cup {MaxTime}

(***************************************************************************)
(* RateLimit profiles and the table built by RateLimiter.__init__.         *)
(***************************************************************************)
RateLimit(m, h, d, e, r) ==
    [requests_per_minute |-> m, requests_per_hour |-> h, requests_per_day |-> d,
     export_size_limit |-> e, request_size_limit |-> r]

Categories == {"default", "search", "export", "system"}

InitLimits ==
    [c \in Categories |->
        CASE c = "default" -> RateLimit(60, 1000, 10000, 1000, 1024 * 1024)
          [] c = "search"  -> RateLimit(30, 500, 5000, 500, 512 * 1024)
          [] c = "export"  -> RateLimit(5, 50, 200, 10000, 5 * 1024 * 1024)
          [] c = "system"  -> RateLimit(120, 2000, 20000, 100, 256 * 1024)]

UsageRecord(ts, rs, es) == [timestamp |-> ts, request_size |-> rs, export_size |-> es]

(***************************************************************************)
(* Requests.  A request carries the X-API-Key header (or none), the peer   *)
(* address, and a URL path; a path is modelled by the set of marker        *)
(* substrings it contains, which is all _get_endpoint_category looks at.   *)
(***************************************************************************)
Request(key, host, fwd, path) ==
    [api_key |-> key, host |-> host, forwarded_for |-> fwd, path |-> path]

\* The host of a request whose request.client is None.
NoClient == "None"

_get_client_id(request) ==
    IF request.api_key # None /\ request.api_key[1] # ""
    THEN <<"api_key", request.api_key[1]>>
    ELSE IF request.forwarded_for # None /\ request.forwarded_for[1] # ""
         THEN <<"ip", request.forwarded_for[1]>>
         ELSE <<"ip", IF request.host = NoClient THEN "unknown" ELSE request.host>>

\* (mutant) system paths get a category of their own name
_get_endpoint_categoryUnlisted(path) ==
    IF "/search" \in path THEN "search"
    ELSE IF "/export" \in path \/ "format=" \in path THEN "export"
    ELSE IF "/system" \in path THEN "/system"
    ELSE "default"

_get_endpoint_category(path) ==
    IF "/search" \in path THEN "search"
    ELSE IF "/export" \in path \/ "format=" \in path THEN "export"
    ELSE IF "/system" \in path THEN "system"
    ELSE "default"

\* (mutant) pruning keeps the last hour only
_cleanup_old_recordsHour(records, max_age_seconds, current_time) ==
    SelectSeq(records, LAMBDA r : current_time - r.timestamp <= 3600)

RECURSIVE _cleanup_old_records(_, _, _)
_cleanup_old_records(records, max_age_seconds, current_time) ==
    IF records # <<>> /\ current_time - records[1].timestamp > max_age_seconds
    THEN _cleanup_old_records(Tail(records), max_age_seconds, current_time)
    ELSE records

RECURSIVE CountBackward(_, _, _, _)
CountBackward(records, i, window_seconds, current_time) ==
    IF i = 0 THEN 0
    ELSE IF current_time - records[i].timestamp <= window_seconds
         THEN 1 + CountBackward(records, i - 1, window_seconds, current_time)
         ELSE 0

\* (mutant) a record aged exactly the window is left out
_count_requests_in_windowStrict(records, window_seconds, current_time) ==
    Cardinality({i \in DOMAIN records :
                    current_time - records[i].timestamp < window_seconds})

_count_requests_in_window(records, window_seconds, current_time) ==
    CountBackward(records, Len(records), window_seconds, current_time)

_get_usage_stats(records, current_time) ==
    [minute |-> _count_requests_in_window(records, MinuteWindow, current_time),
     hour   |-> _count_requests_in_window(records, HourWindow, current_time),
     day    |-> _count_requests_in_window(records, DayWindow, current_time)]

(***************************************************************************)
(* check_rate_limit.  The thread resolves client, category and profile,    *)
(* takes the lock, prunes and counts, decides, appends when admitted and   *)
(* releases the lock on return.                                            *)
(***************************************************************************)
AllThreads == 1 .. ConcThreads
NoThread == 0

ZeroUsage == [minute |-> 0, hour |-> 0, day |-> 0]
IdleCall ==
    [client |-> <<"ip", "">>, path |-> {}, limits |-> RateLimit(0, 0, 0, 0, 0),
     export_size |-> None, request_size |-> None, usage |-> ZeroUsage]

Records(client_id) == IF client_id \in DOMAIN usage THEN usage[client_id] ELSE <<>>

WithRecords(client_id, records) ==
    [c \in DOMAIN usage \cup {client_id} |->
        IF c = client_id THEN records ELSE usage[c]]

\* (mutant) the lock excludes nobody
LockIsFreeIgnored == TRUE

LockIsFree == lock = NoThread

VerdictOf(allowed, exceeded, retry_after, export_size, request_size) ==
    [allowed |-> allowed, exceeded |-> exceeded, retry_after |-> retry_after,
     export_size |-> export_size, request_size |-> request_size]

RejectMinute == VerdictOf(FALSE, Some("requests_per_minute"), Some(60), None, None)
RejectHour == VerdictOf(FALSE, Some("requests_per_hour"), Some(3600), None, None)
RejectDay == VerdictOf(FALSE, Some("requests_per_day"), Some(86400), None, None)
RejectExport(export_size) == VerdictOf(FALSE, Some("export_size_limit"), None, export_size, None)
RejectRequest(request_size) == VerdictOf(FALSE, Some("request_size_limit"), None, None, request_size)
Admit == VerdictOf(TRUE, None, None, None, None)

\* (mutant) the minute threshold admits a count equal to the limit
VerdictOffByOne(lim, u, export_size, request_size) ==
    IF u.minute > lim.requests_per_minute THEN RejectMinute
    ELSE IF u.hour >= lim.requests_per_hour THEN RejectHour
    ELSE IF u.day >= lim.requests_per_day THEN RejectDay
    ELSE IF Truthy(export_size) /\ export_size[1] > lim.export_size_limit
    THEN RejectExport(export_size)
    ELSE IF Truthy(request_size) /\ request_size[1] > lim.request_size_limit
    THEN RejectRequest(request_size)
    ELSE Admit

\* (mutant) the hour threshold is tested before the minute threshold
VerdictHourFirst(lim, u, export_size, request_size) ==
    IF u.hour >= lim.requests_per_hour THEN RejectHour
    ELSE IF u.minute >= lim.requests_per_minute THEN RejectMinute
    ELSE IF u.day >= lim.requests_per_day THEN RejectDay
    ELSE IF Truthy(export_size) /\ export_size[1] > lim.export_size_limit
    THEN RejectExport(export_size)
    ELSE IF Truthy(request_size) /\ request_size[1] > lim.request_size_limit
    THEN RejectRequest(request_size)
    ELSE Admit

\* (mutant) the export size is compared with the request size limit
VerdictWrongLimit(lim, u, export_size, request_size) ==
    IF u.minute >= lim.requests_per_minute THEN RejectMinute
    ELSE IF u.hour >= lim.requests_per_hour THEN RejectHour
    ELSE IF u.day >= lim.requests_per_day THEN RejectDay
    ELSE IF Truthy(export_size) /\ export_size[1] > lim.request_size_limit
    THEN RejectExport(export_size)
    ELSE IF Truthy(request_size) /\ request_size[1] > lim.request_size_limit
    THEN RejectRequest(request_size)
    ELSE Admit

\* The threshold checks of check_rate_limit, in the order the code makes them.
Verdict(lim, u, export_size, request_size) ==
    IF u.minute >= lim.requests_per_minute THEN RejectMinute
    ELSE IF u.hour >= lim.requests_per_hour THEN RejectHour
    ELSE IF u.day >= lim.requests_per_day THEN RejectDay
    ELSE IF Truthy(export_size) /\ export_size[1] > lim.export_size_limit
    THEN RejectExport(export_size)
    ELSE IF Truthy(request_size) /\ request_size[1] > lim.request_size_limit
    THEN RejectRequest(request_size)
    ELSE Admit

\* The rate_limit_info dictionary; a key the code does not set is None.
RateLimitInfo(category, lim, u, v, current_time) ==
    [category |-> category,
     limits |-> lim,
     current_usage |-> u,
     remaining |-> [minute |-> Max(0, lim.requests_per_minute - u.minute),
                    hour   |-> Max(0, lim.requests_per_hour - u.hour),
                    day    |-> Max(0, lim.requests_per_day - u.day)],
     reset_times |-> [minute |-> current_time + 60,
                      hour   |-> current_time + 3600,
                      day    |-> current_time + 86400],
     exceeded |-> v.exceeded,
     retry_after |-> v.retry_after,
     export_size |-> v.export_size,
     request_size |-> v.request_size]

NoResult == <<>>

\* The response headers made from an info; a header that is not set is None.
get_rate_limit_headers(info) ==
    [X_RateLimit_Limit_Minute |-> Some(ToString(info.limits.requests_per_minute)),
     X_RateLimit_Limit_Hour |-> Some(ToString(info.limits.requests_per_hour)),
     X_RateLimit_Limit_Day |-> Some(ToString(info.limits.requests_per_day)),
     X_RateLimit_Remaining_Minute |-> Some(ToString(info.remaining.minute)),
     X_RateLimit_Remaining_Hour |-> Some(ToString(info.remaining.hour)),
     X_RateLimit_Remaining_Day |-> Some(ToString(info.remaining.day)),
     X_RateLimit_Reset_Minute |-> Some(info.reset_times.minute),
     X_RateLimit_Reset_Hour |-> Some(info.reset_times.hour),
     X_RateLimit_Reset_Day |-> Some(info.reset_times.day),
     X_Export_Size_Limit |-> Some(ToString(info.limits.export_size_limit)),
     X_Request_Size_Limit |-> Some(ToString(info.limits.request_size_limit)),
     X_RateLimit_Category |-> Some(info.category),
     Retry_After |-> IF info.retry_after # None
                     THEN Some(ToString(info.retry_after[1]))
                     ELSE None]

\* The statements before the lock; self._limits[category] raises KeyError
\* for a category that is not in the table.
Begin(t, request, export_size, request_size) ==
    /\ pc[t] = "idle"
    /\ IF _get_endpoint_category(request.path) \in DOMAIN limits
       THEN /\ pc' = [pc EXCEPT ![t] = "wait"]
            /\ call' = [call EXCEPT ![t] =
                  [client |-> _get_client_id(request),
                   path |-> request.path,
                   limits |-> limits[_get_endpoint_category(request.path)],
                   export_size |-> export_size,
                   request_size |-> request_size,
                   usage |-> ZeroUsage]]
       ELSE /\ pc' = [pc EXCEPT ![t] = "raised"]
            /\ call' = call
    /\ UNCHANGED <<usage, limits, lock, now, result>>

AcquireLock(t, cap) ==
    /\ pc[t] = "wait"
    /\ LockIsFree
    /\ Len(Records(call[t].client)) < cap
    /\ lock' = t
    /\ pc' = [pc EXCEPT ![t] = "locked"]
    /\ UNCHANGED <<usage, limits, now, call, result>>

CheckUsage(t) ==
    /\ pc[t] = "locked"
    /\ LET records == _cleanup_old_records(Records(call[t].client), RetentionSeconds, now)
       IN /\ usage' = WithRecords(call[t].client, records)
          /\ call' = [call EXCEPT ![t].usage = _get_usage_stats(records, now)]
    /\ pc' = [pc EXCEPT ![t] = "checked"]
    /\ UNCHANGED <<limits, lock, now, result>>

\* (mutant) an admitted call that carries an export size is kept off the
\* client's ledger
RecordedExportApart(c, allowed, current_time) ==
    IF allowed /\ c.export_size = None
    THEN WithRecords(c.client,
             Append(Records(c.client),
                    UsageRecord(current_time, OrZero(c.request_size), 0)))
    ELSE usage

\* (mutant) a rejected call is recorded as well
RecordedAlways(c, allowed, current_time) ==
    WithRecords(c.client,
        Append(Records(c.client),
               UsageRecord(current_time, OrZero(c.request_size), OrZero(c.export_size))))

\* The ledger after the decision: an admitted call appends its usage record.
Recorded(c, allowed, current_time) ==
    IF allowed
    THEN WithRecords(c.client,
             Append(Records(c.client),
                    UsageRecord(current_time, OrZero(c.request_size),
                                OrZero(c.export_size))))
    ELSE usage

Commit(t) ==
    /\ pc[t] = "checked"
    /\ LET c == call[t]
           v == Verdict(c.limits, c.usage, c.export_size, c.request_size)
           info == RateLimitInfo(_get_endpoint_category(c.path), c.limits, c.usage, v, now)
       IN /\ usage' = Recorded(c, v.allowed, now)
          /\ result' = [result EXCEPT ![t] = Some([allowed |-> v.allowed, info |-> info])]
    /\ lock' = IF lock = t THEN NoThread ELSE lock
    /\ pc' = [pc EXCEPT ![t] = "done"]
    /\ UNCHANGED <<limits, now, call>>

Return(t) ==
    /\ pc[t] = "done"
    /\ pc' = [pc EXCEPT ![t] = "idle"]
    /\ call' = [call EXCEPT ![t] = IdleCall]
    /\ result' = [result EXCEPT ![t] = NoResult]
    /\ UNCHANGED <<usage, limits, lock, now>>

\* table[category] = lim, for a category of the table or a new one
WithLimits(table, category, lim) ==
    [c \in DOMAIN table \cup {category} |->
        IF c = category THEN lim ELSE table[c]]

update_limits(category, lim) ==
    /\ LockIsFree
    /\ limits' = WithLimits(limits, category, lim)
    /\ UNCHANGED <<usage, lock, now, pc, call, result>>

\* (mutant) a reset empties every ledger
reset_client_usageAll(client_id) ==
    /\ LockIsFree
    /\ usage' = [c \in DOMAIN usage |-> <<>>]
    /\ UNCHANGED <<limits, lock, now, pc, call, result>>

reset_client_usage(client_id) ==
    /\ LockIsFree
    /\ usage' = IF client_id \in DOMAIN usage
                THEN [usage EXCEPT ![client_id] = <<>>]
                ELSE usage
    /\ UNCHANGED <<limits, lock, now, pc, call, result>>

\* (mutant) the clock may be set back
TickAnywhere(instants) ==
    \E t \in instants : t # now /\ now' = t

\* The clock moves forward to a later instant.
Tick(instants) ==
    \E t \in instants : t > now /\ now' = t

(***************************************************************************)
(* InMemoryCache.  A caller's key is a string or a tuple; a string is the  *)
(* sequence of its pieces, a tuple the sequence of its items.  The digest  *)
(* of _generate_key is taken to be collision free, so a derived key is     *)
(* the digested text tagged "md5".                                         *)
(***************************************************************************)
StrKey(body) == [kind |-> "str", body |-> body]
TupleKey(items) == [kind |-> "tuple", body |-> items]

ItemRank(x) == CASE x = "a" -> 1 [] x = "b" -> 2 [] OTHER -> 3

RECURSIVE InsertSorted(_, _)
InsertSorted(x, seq) ==
    IF seq = <<>> THEN <<x>>
    ELSE IF ItemRank(x) < ItemRank(Head(seq)) THEN <<x>> \o seq
         ELSE <<Head(seq)>> \o InsertSorted(x, Tail(seq))

RECURSIVE sorted(_)
sorted(seq) == IF seq = <<>> THEN <<>> ELSE InsertSorted(Head(seq), sorted(Tail(seq)))

_generate_key(key) ==
    IF key.kind = "str" THEN key
    ELSE [kind |-> "md5", body |-> sorted(key.body)]

PyNone == "None"

CacheEntry(value, ttl_seconds, t) ==
    [value |-> value, created_at |-> t, ttl_seconds |-> ttl_seconds,
     access_count |-> 0, last_accessed |-> t]

\* (mutant) an entry expires as soon as its age reaches the ttl
is_expiredAtTtl(entry, t) ==
    IF entry.ttl_seconds = None THEN FALSE
    ELSE t - entry.created_at >= entry.ttl_seconds[1]

is_expired(entry, t) ==
    IF entry.ttl_seconds = None THEN FALSE
    ELSE t - entry.created_at > entry.ttl_seconds[1]

access(entry, t) ==
    [entry EXCEPT !.access_count = entry.access_count + 1, !.last_accessed = t]

ZeroStats == [hits |-> 0, misses |-> 0, sets |-> 0, deletes |-> 0, evictions |-> 0]

Without(keys) == [k \in DOMAIN cache \ keys |-> cache[k]]

Returned(op, key, value, found, count) ==
    [op |-> op, key |-> key, value |-> value, found |-> found, count |-> count]

NoKey == StrKey(<<>>)

\* (mutant) the lazy removal of an expired entry is not counted
LookedUncounted(key) ==
    LET cache_key == _generate_key(key) IN
    IF cache_key \in DOMAIN cache
    THEN IF is_expired(cache[cache_key], now)
         THEN [cache |-> Without({cache_key}),
               stats |-> [stats EXCEPT !.misses = @ + 1],
               value |-> PyNone, found |-> FALSE]
         ELSE [cache |-> [cache EXCEPT ![cache_key] = access(@, now)],
               stats |-> [stats EXCEPT !.hits = @ + 1],
               value |-> cache[cache_key].value, found |-> TRUE]
    ELSE [cache |-> cache,
          stats |-> [stats EXCEPT !.misses = @ + 1],
          value |-> PyNone, found |-> FALSE]

\* What get finds under a key and the store it leaves behind: the value of
\* a live entry, whose access is counted, or None when the key is missing or
\* its entry has expired, in which case the entry is evicted.
Looked(key) ==
    LET cache_key == _generate_key(key) IN
    IF cache_key \in DOMAIN cache
    THEN IF is_expired(cache[cache_key], now)
         THEN [cache |-> Without({cache_key}),
               stats |-> [stats EXCEPT !.evictions = @ + 1, !.misses = @ + 1],
               value |-> PyNone, found |-> FALSE]
         ELSE [cache |-> [cache EXCEPT ![cache_key] = access(@, now)],
               stats |-> [stats EXCEPT !.hits = @ + 1],
               value |-> cache[cache_key].value, found |-> TRUE]
    ELSE [cache |-> cache,
          stats |-> [stats EXCEPT !.misses = @ + 1],
          value |-> PyNone, found |-> FALSE]

get(key) ==
    LET g == Looked(key) IN
    /\ cache' = g.cache
    /\ stats' = g.stats
    /\ ret' = Returned("get", key, g.value, g.found, 0)

\* store[cache_key] = entry
StoredIn(store, cache_key, entry) ==
    [k \in DOMAIN store \cup {cache_key} |->
        IF k = cache_key THEN entry ELSE store[k]]

\* (mutant) an entry already stored under the key is kept
StoredIfAbsent(cache_key, entry) ==
    [k \in DOMAIN cache \cup {cache_key} |->
        IF k \in DOMAIN cache THEN cache[k] ELSE entry]

\* self._cache[cache_key] = entry
Stored(cache_key, entry) == StoredIn(cache, cache_key, entry)

ttl_to_use(ttl) == IF ttl # None THEN ttl ELSE default_ttl

set(key, value, ttl) ==
    LET cache_key == _generate_key(key)
    IN /\ cache' = Stored(cache_key, CacheEntry(value, ttl_to_use(ttl), now))
       /\ stats' = [stats EXCEPT !.sets = @ + 1]
       /\ ret' = Returned("set", key, value, FALSE, 0)

\* (mutant) the deletes counter is bumped whether or not the key was there
deleteCountsMisses(key) ==
    LET cache_key == _generate_key(key) IN
    /\ cache' = Without({cache_key})
    /\ stats' = [stats EXCEPT !.deletes = @ + 1]
    /\ ret' = Returned("delete", key, PyNone, cache_key \in DOMAIN cache, 0)

delete(key) ==
    LET cache_key == _generate_key(key) IN
    IF cache_key \in DOMAIN cache
    THEN /\ cache' = Without({cache_key})
         /\ stats' = [stats EXCEPT !.deletes = @ + 1]
         /\ ret' = Returned("delete", key, PyNone, TRUE, 0)
    ELSE /\ UNCHANGED <<cache, stats>>
         /\ ret' = Returned("delete", key, PyNone, FALSE, 0)

\* (mutant) the counters survive a clear
clearKeepsStats(entry_point) ==
    /\ cache' = <<>>
    /\ stats' = stats
    /\ ret' = Returned(entry_point, NoKey, PyNone, FALSE, Cardinality(DOMAIN cache))

\* clear returns nothing; ret records the entry point through which it was
\* called and how many entries it dropped.
clear(entry_point) ==
    /\ cache' = <<>>
    /\ stats' = [k \in DOMAIN stats |-> 0]
    /\ ret' = Returned(entry_point, NoKey, PyNone, FALSE, Cardinality(DOMAIN cache))

\* (mutant) the size of the map after the sweep is returned
cleanup_expiredReturnsSize ==
    LET expired_keys == {k \in DOMAIN cache : is_expired(cache[k], now)} IN
    /\ cache' = Without(expired_keys)
    /\ stats' = [stats EXCEPT !.evictions = @ + Cardinality(expired_keys)]
    /\ ret' = Returned("cleanup_expired", NoKey, PyNone, FALSE,
                       Cardinality(DOMAIN cache \ expired_keys))

cleanup_expired ==
    LET expired_keys == {k \in DOMAIN cache : is_expired(cache[k], now)} IN
    /\ cache' = Without(expired_keys)
    /\ stats' = [stats EXCEPT !.evictions = @ + Cardinality(expired_keys)]
    /\ ret' = Returned("cleanup_expired", NoKey, PyNone, FALSE, Cardinality(expired_keys))

\* CacheManager.invalidate_all_cache delegates to clear.
invalidate_all_cache == clear("invalidate_all_cache")

\* len(str(entry.value)) of the values the model stores
StrLen(value) == IF value = PyNone THEN 4 ELSE 2

RECURSIVE SumOver(_, _)
SumOver(keys, store) ==
    IF keys = {} THEN 0
    ELSE LET k == CHOOSE x \in keys : TRUE
         IN StrLen(store[k].value) + SumOver(keys \ {k}, store)

\* get_stats; the hit rate is the fraction hits / total_requests, kept as
\* its numerator and denominator, and 0 when nothing was requested yet.
get_stats ==
    LET total_requests == stats.hits + stats.misses IN
    [hits |-> stats.hits, misses |-> stats.misses, sets |-> stats.sets,
     deletes |-> stats.deletes, evictions |-> stats.evictions,
     total_requests |-> total_requests,
     hit_rate |-> IF total_requests > 0 THEN <<stats.hits, total_requests>>
                  ELSE <<0, 1>>,
     cache_size |-> Cardinality(DOMAIN cache),
     memory_usage_estimate |-> SumOver(DOMAIN cache, cache)]

(***************************************************************************)
(* cached(ttl): the wrapper around a function.  Its key is the function's  *)
(* name, a colon and the decimal text of hash((args, kwargs)).  Arguments  *)
(* are small integers, which CPython hashes to themselves except for -1,   *)
(* whose hash is -2; the hash of the argument tuple is a function of the   *)
(* hashes of its items and is taken to collide only when those agree, so   *)
(* its text is modelled by the texts of the item hashes.  `computed` is    *)
(* what the wrapped function returns if the wrapper invokes it.            *)
(***************************************************************************)
hash(n) == IF n = -1 THEN -2 ELSE n

HashText(args) == [i \in 1 .. Len(args) |-> ToString(hash(args[i]))]

WrapperKey(func, args) == StrKey(<<func, ":">> \o HashText(args))

\* (mutant) a hit stores the found value again
wrapperRefreshing(func, ttl, args, computed) ==
    LET cache_key == WrapperKey(func, args)
        g == Looked(cache_key)
        r == IF g.value # PyNone THEN g.value ELSE computed
    IN /\ cache' = StoredIn(g.cache, _generate_key(cache_key),
                            CacheEntry(r, ttl_to_use(ttl), now))
       /\ stats' = [g.stats EXCEPT !.sets = @ + 1]
       /\ ret' = Returned("cached", cache_key, r, g.value # PyNone,
                          IF g.value # PyNone THEN 0 ELSE 1)

\* ret.found tells that the result came from the store, ret.count how many
\* times the wrapped function was invoked.
wrapper(func, ttl, args, computed) ==
    LET cache_key == WrapperKey(func, args)
        g == Looked(cache_key)
    IN IF g.value # PyNone
       THEN /\ cache' = g.cache
            /\ stats' = g.stats
            /\ ret' = Returned("cached", cache_key, g.value, TRUE, 0)
       ELSE /\ cache' = StoredIn(g.cache, _generate_key(cache_key),
                                 CacheEntry(computed, ttl_to_use(ttl), now))
            /\ stats' = [g.stats EXCEPT !.sets = @ + 1]
            /\ ret' = Returned("cached", cache_key, computed, FALSE, 1)

\* History of the wrapper: for each argument tuple the instant and the
\* result of the last invocation of the wrapped function, and the argument
\* tuple of the latest call.
NoCalls == [of |-> <<>>, args |-> None]

Invoked(args, computed) ==
    [a \in DOMAIN memo.of \cup {args} |->
        IF a = args THEN [at |-> now, value |-> computed] ELSE memo.of[a]]

(***************************************************************************)
(* Pattern invalidation.  `pattern in key` on strings: the pieces of the   *)
(* pattern occur consecutively in the key.  The text of a digested key is  *)
(* hexadecimal; every pattern modelled holds a character that is not,      *)
(* except the empty pattern, which is in every string.                     *)
(***************************************************************************)
\* (mutant) the key starts with the pattern
ContainsAtStart(text, pattern) ==
    /\ Len(pattern) <= Len(text)
    /\ SubSeq(text, 1, Len(pattern)) = pattern

Contains(text, pattern) ==
    \E i \in 0 .. Len(text) - Len(pattern) :
       SubSeq(text, i + 1, i + Len(pattern)) = pattern

KeyMatches(cache_key, pattern) ==
    IF cache_key.kind = "md5" THEN pattern = <<>>
    ELSE Contains(cache_key.body, pattern)

\* (mutant) the deletes counter is set to the number of keys of this sweep
SweepRecount(s, pattern) ==
    LET keys_to_delete == {k \in DOMAIN s.cache : KeyMatches(k, pattern)} IN
    [cache |-> [k \in DOMAIN s.cache \ keys_to_delete |-> s.cache[k]],
     stats |-> [s.stats EXCEPT !.deletes = Cardinality(keys_to_delete)],
     count |-> s.count + Cardinality(keys_to_delete)]

\* One invalidate_cache_pattern call on a store s = [cache, stats, count]:
\* the matching keys are collected, each is deleted, their number is added
\* to the running count.
Sweep(s, pattern) ==
    LET keys_to_delete == {k \in DOMAIN s.cache : KeyMatches(k, pattern)} IN
    [cache |-> [k \in DOMAIN s.cache \ keys_to_delete |-> s.cache[k]],
     stats |-> [s.stats EXCEPT !.deletes = @ + Cardinality(keys_to_delete)],
     count |-> s.count + Cardinality(keys_to_delete)]

Unswept == [cache |-> cache, stats |-> stats, count |-> 0]

invalidate_cache_pattern(pattern) ==
    LET s == Sweep(Unswept, pattern) IN
    /\ cache' = s.cache
    /\ stats' = s.stats
    /\ ret' = Returned("invalidate_cache_pattern", StrKey(pattern), PyNone, FALSE, s.count)

(***************************************************************************)
(* CacheManager: the groups of patterns and the invalidate_* entry points, *)
(* each a loop of invalidate_cache_pattern calls adding up the counts.     *)
(* An id is an optional text; ret.key records the id the targeted branch   *)
(* was taken with, NoKey when the whole group was swept.                   *)
(***************************************************************************)
_invalidation_patterns ==
    [stops |-> << <<"get_stop_by_id_handler">>, <<"search_stops_handler">>,
                  <<"get_stop_routes_handler">> >>,
     routes |-> << <<"get_all_routes">>, <<"get_route_by_id">>,
                   <<"get_route_stops">>, <<"get_route_shape">> >>,
     trips |-> << <<"get_route_trips">>, <<"get_stop_departures_handler">> >>,
     system |-> << <<"get_system_status">>, <<"get_active_alerts">>,
                   <<"get_system_stats">> >>,
     geospatial |-> << <<"get_nearby_stops_handler">>, <<"get_nearby_routes">> >>]

RECURSIVE SweepAll(_, _)
SweepAll(s, patterns) ==
    IF patterns = <<>> THEN s
    ELSE SweepAll(Sweep(s, Head(patterns)), Tail(patterns))

\* `if stop_id:` - an id that is given and not the empty string
GivenId(id) == id # None /\ id[1] # <<>>

IdKey(id) == IF GivenId(id) THEN StrKey(id[1]) ELSE NoKey

\* f"{name}:{id}"
ForId(name, id) == <<name, ":">> \o id[1]

\* (mutant) the count is the number of matches of every pattern in the store
\* as it was
InvalidatedTallied(entry_point, id, patterns) ==
    LET s == SweepAll(Unswept, patterns) IN
    /\ cache' = s.cache
    /\ stats' = s.stats
    /\ ret' = Returned(entry_point, IdKey(id), PyNone, GivenId(id),
                       Cardinality({m \in (DOMAIN patterns) \X (DOMAIN cache) :
                                       KeyMatches(m[2], patterns[m[1]])}))

Invalidated(entry_point, id, patterns) ==
    LET s == SweepAll(Unswept, patterns) IN
    /\ cache' = s.cache
    /\ stats' = s.stats
    /\ ret' = Returned(entry_point, IdKey(id), PyNone, GivenId(id), s.count)

\* (mutant) the geospatial group is left alone
invalidate_stop_cacheOwnGroup(stop_id) ==
    Invalidated("invalidate_stop_cache", stop_id,
        IF GivenId(stop_id)
        THEN << ForId("get_stop_by_id_handler", stop_id),
                ForId("get_stop_routes_handler", stop_id),
                ForId("get_stop_departures_handler", stop_id) >>
        ELSE _invalidation_patterns.stops)

invalidate_stop_cache(stop_id) ==
    Invalidated("invalidate_stop_cache", stop_id,
        IF GivenId(stop_id)
        THEN << ForId("get_stop_by_id_handler", stop_id),
                ForId("get_stop_routes_handler", stop_id),
                ForId("get_stop_departures_handler", stop_id) >>
        ELSE _invalidation_patterns.stops \o _invalidation_patterns.geospatial)

invalidate_route_cache(route_id) ==
    Invalidated("invalidate_route_cache", route_id,
        IF GivenId(route_id)
        THEN << ForId("get_route_by_id", route_id),
                ForId("get_route_stops", route_id),
                ForId("get_route_trips", route_id),
                ForId("get_route_shape", route_id) >>
        ELSE _invalidation_patterns.routes \o _invalidation_patterns.geospatial)

invalidate_trip_cache(route_id) ==
    Invalidated("invalidate_trip_cache", route_id,
        IF GivenId(route_id)
        THEN << ForId("get_route_trips", route_id),
                <<"get_stop_departures_handler">> >>
        ELSE _invalidation_patterns.trips)

invalidate_system_cache ==
    Invalidated("invalidate_system_cache", None, _invalidation_patterns.system)

(***************************************************************************)
(* Threads working on the store.  InMemoryCache takes no lock, so a thread *)
(* can be preempted between any two statements of an operation; each step  *)
(* below is one statement on the shared map.  A worker holds its position, *)
(* the key it works on, the iterator of a scan (the keys still to come and *)
(* the size of the map when the iterator was made: a dict iterator raises  *)
(* RuntimeError when the size has changed), the keys it collected, and the *)
(* exception that ended its operation, if any.                             *)
(***************************************************************************)
Workers == {1, 2}

IdleWorker ==
    [pc |-> "idle", key |-> NoKey, pattern |-> <<>>, keys |-> {}, size |-> 0,
     todo |-> {}, error |-> "", ops |-> 0]

At(w, pc_) == worker[w].pc = pc_

Goto(w, pc_) == worker' = [worker EXCEPT ![w].pc = pc_]

Finish(w) ==
    worker' = [worker EXCEPT ![w] = [IdleWorker EXCEPT !.ops = worker[w].ops]]

Raise(w, error) ==
    /\ worker' = [worker EXCEPT ![w].pc = "raised", ![w].error = error]
    /\ UNCHANGED <<cache, stats>>

\* A worker calls get or delete with a key.
Enter(w, op, key, cap) ==
    /\ At(w, "idle")
    /\ worker[w].ops < cap
    /\ worker' = [worker EXCEPT ![w].pc = op, ![w].key = _generate_key(key),
                                ![w].ops = @ + 1]
    /\ UNCHANGED <<cache, stats>>

\* A worker calls cleanup_expired or invalidate_cache_pattern: the for loop
\* makes the iterator over the map.
EnterScan(w, op, pattern, cap) ==
    /\ At(w, "idle")
    /\ worker[w].ops < cap
    /\ worker' = [worker EXCEPT ![w].pc = op, ![w].pattern = pattern,
                                ![w].keys = DOMAIN cache,
                                ![w].size = Cardinality(DOMAIN cache),
                                ![w].ops = @ + 1]
    /\ UNCHANGED <<cache, stats>>

\* get: `if cache_key in self._cache`
get_in(w) ==
    /\ At(w, "get")
    /\ IF worker[w].key \in DOMAIN cache
       THEN Goto(w, "get_entry") /\ UNCHANGED <<cache, stats>>
       ELSE /\ stats' = [stats EXCEPT !.misses = @ + 1]
            /\ cache' = cache
            /\ Finish(w)

\* get: `entry = self._cache[cache_key]`, `if entry.is_expired()`, and the
\* hit that follows when it is not
get_entry(w) ==
    /\ At(w, "get_entry")
    /\ LET k == worker[w].key IN
       IF k \notin DOMAIN cache THEN Raise(w, "KeyError")
       ELSE IF is_expired(cache[k], now)
            THEN Goto(w, "get_del") /\ UNCHANGED <<cache, stats>>
            ELSE /\ stats' = [stats EXCEPT !.hits = @ + 1]
                 /\ cache' = [cache EXCEPT ![k] = access(@, now)]
                 /\ Finish(w)

\* get: `del self._cache[cache_key]` and the two counters
get_del(w) ==
    /\ At(w, "get_del")
    /\ LET k == worker[w].key IN
       IF k \notin DOMAIN cache THEN Raise(w, "KeyError")
       ELSE /\ cache' = Without({k})
            /\ stats' = [stats EXCEPT !.evictions = @ + 1, !.misses = @ + 1]
            /\ Finish(w)

\* set: one store into the map and the counter
set_item(w, key, value, ttl, cap) ==
    /\ At(w, "idle")
    /\ worker[w].ops < cap
    /\ cache' = Stored(_generate_key(key), CacheEntry(value, ttl_to_use(ttl), now))
    /\ stats' = [stats EXCEPT !.sets = @ + 1]
    /\ worker' = [worker EXCEPT ![w].ops = @ + 1]

\* delete: `if cache_key in self._cache`
delete_in(w) ==
    /\ At(w, "delete")
    /\ UNCHANGED <<cache, stats>>
    /\ IF worker[w].key \in DOMAIN cache
       THEN Goto(w, "delete_del")
       ELSE Finish(w)

\* delete: `del self._cache[cache_key]` and the counter
delete_del(w) ==
    /\ At(w, "delete_del")
    /\ LET k == worker[w].key IN
       IF k \notin DOMAIN cache THEN Raise(w, "KeyError")
       ELSE /\ cache' = Without({k})
            /\ stats' = [stats EXCEPT !.deletes = @ + 1]
            /\ Finish(w)

\* One turn of a loop over the map: the iterator fails when the map has
\* changed size, ends when no key is left, and otherwise yields a key,
\* which is collected when it is one of the `wanted` keys of the map.
Iterate(w, wanted, then) ==
    /\ UNCHANGED <<cache, stats>>
    /\ IF Cardinality(DOMAIN cache) # worker[w].size
       THEN worker' = [worker EXCEPT ![w].pc = "raised",
                                     ![w].error = "RuntimeError"]
       ELSE IF worker[w].keys = {}
            THEN IF worker[w].todo = {} THEN Finish(w) ELSE Goto(w, then)
            ELSE \E k \in worker[w].keys :
                    worker' = [worker EXCEPT
                       ![w].keys = @ \ {k},
                       ![w].todo = IF k \in wanted THEN @ \cup {k} ELSE @]

\* cleanup_expired: `for key, entry in self._cache.items()`
cleanup_scan(w) ==
    /\ At(w, "cleanup_expired")
    /\ Iterate(w, {k \in DOMAIN cache : is_expired(cache[k], now)}, "cleanup_del")

\* cleanup_expired: `del self._cache[key]` for a collected key
cleanup_del(w) ==
    /\ At(w, "cleanup_del")
    /\ \E k \in worker[w].todo :
          IF k \notin DOMAIN cache THEN Raise(w, "KeyError")
          ELSE /\ cache' = Without({k})
               /\ stats' = [stats EXCEPT !.evictions = @ + 1]
               /\ IF worker[w].todo = {k} THEN Finish(w)
                  ELSE worker' = [worker EXCEPT ![w].todo = @ \ {k}]

\* invalidate_cache_pattern: `for key in _global_cache._cache.keys()`
pattern_scan(w) ==
    /\ At(w, "invalidate_cache_pattern")
    /\ Iterate(w, {k \in DOMAIN cache : KeyMatches(k, worker[w].pattern)},
               "pattern_delete")

\* invalidate_cache_pattern: `_global_cache.delete(key)` for a collected
\* key, up to delete's test of the key
pattern_delete(w) ==
    /\ At(w, "pattern_delete")
    /\ UNCHANGED <<cache, stats>>
    /\ \E k \in worker[w].todo :
          IF k \in DOMAIN cache
          THEN worker' = [worker EXCEPT ![w].pc = "pattern_del", ![w].key = k,
                                       ![w].todo = @ \ {k}]
          ELSE IF worker[w].todo = {k} THEN Finish(w)
               ELSE worker' = [worker EXCEPT ![w].todo = @ \ {k}]

\* invalidate_cache_pattern: the `del` of that delete call
pattern_del(w) ==
    /\ At(w, "pattern_del")
    /\ LET k == worker[w].key IN
       IF k \notin DOMAIN cache THEN Raise(w, "KeyError")
       ELSE /\ cache' = Without({k})
            /\ stats' = [stats EXCEPT !.deletes = @ + 1]
            /\ IF worker[w].todo = {} THEN Finish(w)
               ELSE Goto(w, "pattern_delete")

(***************************************************************************)
(* The two middlewares.  CacheMiddleware (cache_middleware.py) keeps       *)
(* last_cleanup and starts the background sweep; RateLimitMiddleware       *)
(* (rate_limiting.py) puts the limiter in front of the wrapped app.        *)
(***************************************************************************)
cleanup_interval == 300

NoResponse == <<>>

\* CacheMiddleware.__init__: last_cleanup = time.time() at construction.  The
\* record also keeps what the middleware did: the instants at which a sweep
\* was scheduled, the created tasks not yet run, how the run tasks ended,
\* what they printed, and the response of the last request.
NewMiddleware ==
    [last_cleanup |-> 0, scheduled |-> <<>>, pending |-> 0, ended |-> <<>>,
     log |-> <<>>, response |-> NoResponse, requests |-> 0]

NoPast == [rejected |-> {}, admitted |-> {}, at |-> 0]

\* str(round(hit_rate, 3)) stands as the rate's number of thousandths, the
\* rate being the pair hits, total_requests.
Rounded3(rate) == (2000 * rate[1] + rate[2]) \div (2 * rate[2])

\* CacheMiddleware.dispatch: when more than cleanup_interval has passed since
\* last_cleanup a sweep task is created and last_cleanup moves to the current
\* time; the response of call_next then gets the cache headers.
dispatch ==
    LET due == now - sweeper.last_cleanup > cleanup_interval
        cache_stats == get_stats
    IN sweeper' =
         [sweeper EXCEPT
            !.last_cleanup = IF due THEN now ELSE @,
            !.pending = IF due THEN @ + 1 ELSE @,
            !.scheduled = IF due THEN Append(@, now) ELSE @,
            !.requests = @ + 1,
            !.response =
               Some([body |-> "call_next",
                     X_Cache_Hit_Rate |-> Rounded3(cache_stats.hit_rate),
                     X_Cache_Size |-> ToString(cache_stats.cache_size),
                     X_Process_Time |-> "0.0"])]

\* How a sweep task ended: whether cleanup_expired_entries raised in it,
\* whether the task returned or died of the exception, and how many requests
\* had been answered by then.
Ended(raised, outcome) ==
    [raised |-> raised, outcome |-> outcome, requests |-> sweeper.requests]

\* (mutant) the task has no handler for the sweep's exception
_background_cleanupUncaught(raises) ==
    /\ sweeper.pending > 0
    /\ IF raises
       THEN /\ UNCHANGED <<cache, stats, ret>>
            /\ sweeper' = [sweeper EXCEPT
                              !.pending = @ - 1,
                              !.ended = Append(@, Ended(TRUE, "exception"))]
       ELSE /\ cleanup_expired
            /\ sweeper' = [sweeper EXCEPT
                              !.pending = @ - 1,
                              !.ended = Append(@, Ended(FALSE, "returned")),
                              !.log = IF ret'.count > 0
                                      THEN Append(@, <<"removed", ret'.count>>)
                                      ELSE @]

\* CacheMiddleware._background_cleanup, run by the event loop once it was
\* created.  The sweep works on the store without a lock while handler
\* threads use it, so its scan may raise (dictionary changed size during
\* iteration) before anything is removed; the task catches and prints.
_background_cleanup(raises) ==
    /\ sweeper.pending > 0
    /\ IF raises
       THEN /\ UNCHANGED <<cache, stats, ret>>
            /\ sweeper' = [sweeper EXCEPT
                              !.pending = @ - 1,
                              !.ended = Append(@, Ended(TRUE, "returned")),
                              !.log = Append(@, <<"error">>)]
       ELSE /\ cleanup_expired
            /\ sweeper' = [sweeper EXCEPT
                              !.pending = @ - 1,
                              !.ended = Append(@, Ended(FALSE, "returned")),
                              !.log = IF ret'.count > 0
                                      THEN Append(@, <<"removed", ret'.count>>)
                                      ELSE @]

\* RateLimitMiddleware.__call__ has not handled the thread's request.  app
\* is the sequence of calls made to the wrapped app, each named by the send
\* it was given; consulted tells whether check_rate_limits was called.
NotServed == [app |-> <<>>, consulted |-> FALSE, outcome |-> "none"]

Scope(type, request) == [type |-> type, request |-> request]

\* RateLimitMiddleware.__init__: the default exclude_paths.  A path that
\* starts with a prefix carries the marker "^" prefix.
exclude_paths == {"^/docs", "^/redoc", "^/openapi.json", "^/health"}

\* The two early exits of __call__: a scope that is not http, a path that
\* starts with an excluded prefix.
Bypasses(scope) ==
    \/ scope.type # "http"
    \/ scope.request.path \cap exclude_paths # {}

\* __call__ up to the lock of check_rate_limit: a bypassing scope goes
\* straight to the app with the plain send; for any other the middleware
\* calls check_rate_limits with the size get_request_size computes.
__call__(t, scope, request_size) ==
    /\ pc[t] = "idle"
    /\ IF Bypasses(scope)
       THEN /\ served' = [served EXCEPT ![t] =
                  [app |-> <<"send">>, consulted |-> FALSE, outcome |-> "bypassed"]]
            /\ UNCHANGED <<usage, limits, lock, now, pc, call, result>>
       ELSE /\ Begin(t, scope.request, None, Some(request_size))
            /\ served' = [served EXCEPT ![t] =
                  [app |-> <<>>, consulted |-> TRUE, outcome |-> "none"]]

\* __call__ after check_rate_limit has returned: an admitted request goes to
\* the app with send_with_headers; for a rejected one check_rate_limits
\* raises, the except clause takes the exception and calls the app with the
\* plain send.
Respond(t) ==
    /\ Return(t)
    /\ served' = [served EXCEPT ![t] =
          IF result[t][1].allowed
          THEN [@ EXCEPT !.app = Append(@, "send_with_headers"),
                         !.outcome = "admitted"]
          ELSE [@ EXCEPT !.app = Append(@, "send"),
                         !.outcome = "rejected"]]

(***************************************************************************)
(* Initial state: a freshly constructed RateLimiter and InMemoryCache.     *)
(***************************************************************************)
InitLimiterWith(table) ==
    /\ usage = <<>>
    /\ limits = table
    /\ lock = NoThread
    /\ now = 0
    /\ pc = [t \in AllThreads |-> "idle"]
    /\ call = [t \in AllThreads |-> IdleCall]
    /\ result = [t \in AllThreads |-> NoResult]
    /\ nCalls = 0

InitLimiter == InitLimiterWith(InitLimits)

\* InMemoryCache(default_ttl): the global store takes the default 300, a
\* store may also be built with no default.
DefaultTtls == {Some(300), None}

InitCacheWith(ttl) ==
    /\ cache = <<>>
    /\ stats = ZeroStats
    /\ default_ttl = ttl
    /\ ret = Returned("init", NoKey, PyNone, FALSE, 0)
    /\ lastSet = <<>>
    /\ memo = NoCalls
    /\ worker = [w \in Workers |-> IdleWorker]
    /\ sweeper = NewMiddleware
    /\ served = [t \in AllThreads |-> NotServed]
    /\ past = NoPast

InitCache == \E ttl \in DefaultTtls : InitCacheWith(ttl)

Init == InitLimiter /\ InitCache

(***************************************************************************)
(* The limiter under load: request threads of two clients on every         *)
(* category, an operator installing profiles and resetting clients, and    *)
(* the clock.                                                              *)
(***************************************************************************)
Threads == {1, 2}

Paths == {{}, {"format="}}

\* Thread 1 serves a client that calls every path with every kind of size;
\* thread 2 serves a poller behind a proxy that repeats one plain request.
Requests == {Request(None, "h1", None, p) : p \in Paths}
PollerRequest == Request(Some(""), "h2", Some("h1"), {})

RequestsOf(t) == IF t = 1 THEN Requests ELSE {PollerRequest}

ClientIds == {_get_client_id(r) : r \in Requests \cup {PollerRequest}}

\* Sizes a caller passes: absent, within the limits, and over either limit.
SizeInputs(lim) ==
    {<<None, None>>,
     <<Some(1), Some(1)>>,
     <<Some(lim.export_size_limit + 1), None>>,
     <<Some(0), Some(lim.request_size_limit + 1)>>,
     <<Some(lim.export_size_limit + 1), Some(lim.request_size_limit + 1)>>}

SizesOf(t, lim) == IF t = 1 THEN SizeInputs(lim) ELSE {<<None, None>>}

\* Profiles an operator installs with update_limits.
TightProfile == RateLimit(1, 1, 1, 2, 3)
StepProfile == RateLimit(1, 2, 3, 2, 3)

RLBegin ==
    /\ \E t \in Threads : \E r \in RequestsOf(t) :
          \E sz \in SizesOf(t, limits[_get_endpoint_category(r.path)]) :
             Begin(t, r, sz[1], sz[2])
    /\ UNCHANGED <<nCalls, cacheVars>>

RLAcquire ==
    /\ \E t \in Threads : AcquireLock(t, MaxLedger)
    /\ UNCHANGED <<nCalls, cacheVars>>

RLCheck ==
    /\ \E t \in Threads : CheckUsage(t)
    /\ UNCHANGED <<nCalls, cacheVars>>

RLCommit ==
    /\ \E t \in Threads : Commit(t)
    /\ UNCHANGED <<nCalls, cacheVars>>

RLReturn ==
    /\ \E t \in Threads : Return(t)
    /\ UNCHANGED <<nCalls, cacheVars>>

RLReset ==
    /\ \E c \in ClientIds : reset_client_usage(c)
    /\ UNCHANGED <<nCalls, cacheVars>>

RLTick ==
    /\ Tick(Instants)
    /\ UNCHANGED <<limiterVars, cacheVars>>

NextLimiter ==
    \/ RLBegin
    \/ RLAcquire
    \/ RLCheck
    \/ RLCommit
    \/ RLReturn
    \/ RLReset
    \/ RLTick

\* The limiter once the operator has installed, with update_limits and before
\* any traffic, a tight profile for "default" and a stepped one for "export".
TunedLimits ==
    WithLimits(WithLimits(InitLimits, "default", TightProfile), "export", StepProfile)

InitTuned == InitLimiterWith(TunedLimits) /\ InitCacheWith(Some(300))

SpecLimiter == InitTuned /\ [][NextLimiter]_vars

(***************************************************************************)
(* Contention: ConcThreads request threads of one client call the "export" *)
(* category at once on a freshly constructed limiter, each once, inside    *)
(* one minute.                                                             *)
(***************************************************************************)
ConcThreadSet == 1 .. ConcThreads
ConcRequest == Request(Some("K"), "h1", None, {"/export"})
ConcClient == _get_client_id(ConcRequest)
ConcLimit == InitLimits["export"].requests_per_minute

ConcBegin ==
    /\ \E t \in ConcThreadSet : Begin(t, ConcRequest, None, None)
    /\ UNCHANGED <<nCalls, cacheVars>>

ConcAcquire ==
    /\ \E t \in ConcThreadSet : AcquireLock(t, 2 * ConcThreads)
    /\ UNCHANGED <<nCalls, cacheVars>>

ConcCheck ==
    /\ \E t \in ConcThreadSet : CheckUsage(t)
    /\ UNCHANGED <<nCalls, cacheVars>>

ConcCommit ==
    /\ \E t \in ConcThreadSet : Commit(t)
    /\ UNCHANGED <<nCalls, cacheVars>>

ConcTick ==
    /\ Tick({t \in Instants : t <= MinuteWindow})
    /\ UNCHANGED <<limiterVars, cacheVars>>

NextConc ==
    \/ ConcBegin
    \/ ConcAcquire
    \/ ConcCheck
    \/ ConcCommit
    \/ ConcTick

InitFresh == InitLimiter /\ InitCacheWith(Some(300))

SpecConc == InitFresh /\ [][NextConc]_vars

(***************************************************************************)
(* Burst: one client repeats one request of the "default" category on a    *)
(* freshly constructed limiter, all calls inside a rolling minute.         *)
(***************************************************************************)
BurstRequest == Request(None, "h1", None, {})
BurstClient == _get_client_id(BurstRequest)
BurstLimit == InitLimits["default"].requests_per_minute

\* The request is the same each time: its sizes are those of the first call.
BurstSizes ==
    IF Records(BurstClient) = <<>>
    THEN {<<None, None>>, <<Some(1000), Some(1024 * 1024)>>}
    ELSE LET r == Records(BurstClient)[1]
         IN {<<IF r.export_size = 0 THEN None ELSE Some(r.export_size),
               IF r.request_size = 0 THEN None ELSE Some(r.request_size)>>}

BurstBegin ==
    /\ nCalls < BurstCalls
    /\ \E sz \in BurstSizes : Begin(1, BurstRequest, sz[1], sz[2])
    /\ UNCHANGED <<nCalls, cacheVars>>

BurstAcquire ==
    /\ AcquireLock(1, BurstCalls + 1)
    /\ UNCHANGED <<nCalls, cacheVars>>

BurstCheck ==
    /\ CheckUsage(1)
    /\ UNCHANGED <<nCalls, cacheVars>>

BurstCommit ==
    /\ Commit(1)
    /\ nCalls' = nCalls + 1
    /\ UNCHANGED cacheVars

BurstReturn ==
    /\ Return(1)
    /\ UNCHANGED <<nCalls, cacheVars>>

BurstTick ==
    /\ Tick({t \in Instants : t <= MinuteWindow})
    /\ UNCHANGED <<limiterVars, cacheVars>>

NextBurst ==
    \/ BurstBegin
    \/ BurstAcquire
    \/ BurstCheck
    \/ BurstCommit
    \/ BurstReturn
    \/ BurstTick

SpecBurst == InitFresh /\ [][NextBurst]_vars

(***************************************************************************)
(* Properties of the rate limiter.                                         *)
(***************************************************************************)
Finished(t) == pc[t] = "done"
Outcome(t) == result[t][1]
WindowNames == {"requests_per_minute", "requests_per_hour", "requests_per_day"}

ConcAdmitted == {t \in ConcThreadSet : Finished(t) /\ Outcome(t).allowed}
ConcRejected == {t \in ConcThreadSet : Finished(t) /\ ~Outcome(t).allowed}

Min(a, b) == IF a <= b THEN a ELSE b

\* C1: of the ConcThreads calls one client makes concurrently in one category
\* inside one minute, starting from no usage, at most requests_per_minute are
\* admitted and every other one is rejected (for the minute window); and from
\* a call's count to its return no other call changes the ledger, so the
\* count check and the append are one atomic step.
C1_NoOverAdmission ==
    /\ [](/\ Cardinality(ConcAdmitted) <= ConcLimit
          /\ Len(Records(ConcClient)) <= ConcLimit
          /\ \A t \in ConcRejected :
                Outcome(t).info.exceeded = Some("requests_per_minute")
          /\ (\A t \in ConcThreadSet : Finished(t)) =>
                /\ Cardinality(ConcAdmitted) = Min(ConcThreads, ConcLimit)
                /\ Cardinality(ConcRejected) = ConcThreads - Min(ConcThreads, ConcLimit))
    /\ [][\A t \in ConcThreadSet :
            pc[t] = "checked" => (usage' = usage \/ pc'[t] = "done")]_vars

C1_Witness ==
    /\ \A t \in ConcThreadSet : Finished(t)
    /\ Cardinality(ConcAdmitted) = ConcLimit
    /\ ConcRejected # {}

\* C2: on the constructed "default" profile (requests_per_minute = 60) a
\* client with an empty ledger has each of its first 60 calls inside a
\* rolling minute admitted, and every later call in that minute rejected with
\* exceeded = "requests_per_minute" and retry_after = 60.
C2_BurstAdmitsUpToLimit ==
    Finished(1) =>
        /\ BurstLimit = 60
        /\ Outcome(1).info.category = "default"
        /\ nCalls <= BurstLimit => Outcome(1).allowed
        /\ nCalls > BurstLimit =>
              /\ ~Outcome(1).allowed
              /\ Outcome(1).info.exceeded = Some("requests_per_minute")
              /\ Outcome(1).info.retry_after = Some(60)

C2_Witness ==
    /\ Finished(1)
    /\ nCalls = BurstLimit + 1
    /\ ~Outcome(1).allowed
    /\ Len(Records(BurstClient)) = BurstLimit

\* The windows whose count has reached the limit, from the counts and limits
\* the call reports.
AtLimit(info) ==
    {w \in WindowNames :
        CASE w = "requests_per_minute" ->
                info.current_usage.minute >= info.limits.requests_per_minute
          [] w = "requests_per_hour" ->
                info.current_usage.hour >= info.limits.requests_per_hour
          [] w = "requests_per_day" ->
                info.current_usage.day >= info.limits.requests_per_day}

WindowSeconds(w) ==
    CASE w = "requests_per_minute" -> 60
      [] w = "requests_per_hour" -> 3600
      [] w = "requests_per_day" -> 86400

SmallestAtLimit(info) ==
    CHOOSE w \in AtLimit(info) :
        \A x \in AtLimit(info) : WindowSeconds(w) <= WindowSeconds(x)

\* C3: a call is rejected for a time window exactly when some window's count
\* has reached its limit; the reported constraint is then the smallest such
\* window (minute before hour before day, whatever the larger windows'
\* counts) and retry_after is that window's duration.
C3_SmallestWindowReported ==
    \A t \in Threads :
        Finished(t) =>
            LET info == Outcome(t).info IN
            /\ AtLimit(info) # {} =>
                  /\ ~Outcome(t).allowed
                  /\ info.exceeded = Some(SmallestAtLimit(info))
                  /\ info.retry_after = Some(WindowSeconds(SmallestAtLimit(info)))
            /\ AtLimit(info) = {} =>
                  (info.exceeded = None \/ info.exceeded[1] \notin WindowNames)

C3_Witness ==
    \E t \in Threads :
        /\ Finished(t)
        /\ Outcome(t).info.exceeded = Some("requests_per_minute")
        /\ AtLimit(Outcome(t).info) = WindowNames

C3_WitnessHour ==
    \E t \in Threads :
        /\ Finished(t)
        /\ Outcome(t).info.exceeded = Some("requests_per_hour")
        /\ AtLimit(Outcome(t).info) = {"requests_per_hour"}

C3_WitnessMinuteOnly ==
    \E t \in Threads :
        /\ Finished(t)
        /\ Outcome(t).info.exceeded = Some("requests_per_minute")
        /\ AtLimit(Outcome(t).info) = {"requests_per_minute"}

C3_WitnessDay ==
    \E t \in Threads :
        /\ Finished(t)
        /\ Outcome(t).info.exceeded = Some("requests_per_day")

ExportOver(t) ==
    /\ call[t].export_size # None
    /\ call[t].export_size[1] > call[t].limits.export_size_limit

RequestOver(t) ==
    /\ call[t].request_size # None
    /\ call[t].request_size[1] > call[t].limits.request_size_limit

\* C4 as claimed: an over-size call is rejected with its size constraint as
\* the exceeded reason whatever the client's window counts are.
C4_SizeReasonAlways ==
    \A t \in Threads :
        Finished(t) =>
            /\ ExportOver(t) =>
                  /\ ~Outcome(t).allowed
                  /\ Outcome(t).info.exceeded = Some("export_size_limit")
            /\ (RequestOver(t) /\ ~ExportOver(t)) =>
                  /\ ~Outcome(t).allowed
                  /\ Outcome(t).info.exceeded = Some("request_size_limit")

\* C4 (amended): an over-size call is always rejected and appends nothing; its
\* exceeded reason is the size constraint (export before request) when no
\* window count has reached its limit, as on a client's very first call, and
\* is the smallest window at its limit otherwise.
C4_SizeRejection ==
    \A t \in Threads :
        Finished(t) /\ (ExportOver(t) \/ RequestOver(t)) =>
            LET info == Outcome(t).info IN
            /\ ~Outcome(t).allowed
            /\ AtLimit(info) = {} =>
                  info.exceeded = IF ExportOver(t) THEN Some("export_size_limit")
                                  ELSE Some("request_size_limit")
            /\ AtLimit(info) # {} => info.exceeded = Some(SmallestAtLimit(info))

C4_Witness ==
    \E t \in Threads :
        /\ Finished(t)
        /\ ExportOver(t)
        /\ Outcome(t).info.current_usage.day = 0
        /\ Records(call[t].client) = <<>>
        /\ Outcome(t).info.exceeded = Some("export_size_limit")

C4_WitnessRequest ==
    \E t \in Threads :
        /\ Finished(t)
        /\ Outcome(t).info.exceeded = Some("request_size_limit")

NotOverAge(r) == now - r.timestamp <= RetentionSeconds

\* C5: a rejected call appends nothing: between its start and its return the
\* client's ledger only loses the records older than the retention horizon;
\* an admitted call appends exactly one record, stamped with the current
\* time and carrying the call's sizes; no step changes a record in place or
\* touches the ledger outside a call or a reset.
C5_RejectionsConsumeNothing ==
    [][/\ \A t \in Threads :
          LET c == call[t].client IN
          /\ (pc[t] = "locked" /\ pc'[t] = "checked") =>
                /\ usage'[c] = SelectSeq(Records(c), NotOverAge)
                /\ \A d \in DOMAIN usage \ {c} : usage'[d] = usage[d]
          /\ (pc[t] = "checked" /\ pc'[t] = "done") =>
                IF result'[t][1].allowed
                THEN /\ usage'[c] = Append(usage[c],
                            [timestamp |-> now,
                             request_size |-> IF call[t].request_size = None THEN 0
                                              ELSE call[t].request_size[1],
                             export_size |-> IF call[t].export_size = None THEN 0
                                             ELSE call[t].export_size[1]])
                     /\ \A d \in DOMAIN usage \ {c} : usage'[d] = usage[d]
                ELSE usage' = usage
       /\ (\A t \in Threads :
               /\ ~(pc[t] = "locked" /\ pc'[t] = "checked")
               /\ ~(pc[t] = "checked" /\ pc'[t] = "done")) =>
             \/ usage' = usage
             \/ \E d \in DOMAIN usage : usage' = [usage EXCEPT ![d] = <<>>]]_vars

C5_Witness ==
    \E t \in Threads :
        /\ Finished(t)
        /\ ~Outcome(t).allowed
        /\ Len(Records(call[t].client)) >= 1

C5_WitnessAdmitted ==
    \E t \in Threads :
        /\ Finished(t)
        /\ Outcome(t).allowed
        /\ Len(Records(call[t].client)) >= 2

(***************************************************************************)
(* The cache store driven by one caller: get, set, delete, clear and the   *)
(* sweep on string and tuple keys, with the clock moving across the ttl    *)
(* boundaries.                                                             *)
(***************************************************************************)
CacheKeys == {StrKey(<<"k">>), TupleKey(<<"a", "b">>), TupleKey(<<"b", "a">>)}
Values == {"v1", "v2"}
Ttls == {None, Some(60)}
CacheInstants == {0, 60, 61, 301}

NoneSet == <<>>

Remember(cache_key, value) ==
    [k \in DOMAIN lastSet \cup {cache_key} |->
        IF k = cache_key THEN value ELSE lastSet[k]]

Forget(cache_key) == [k \in DOMAIN lastSet \ {cache_key} |-> lastSet[k]]

CacheGet ==
    /\ stats.hits + stats.misses < MaxGets
    /\ \E k \in CacheKeys : get(k)
    /\ UNCHANGED <<limiterVars, now, default_ttl, lastSet, memo, worker, sweeper, served, past>>

CacheSet ==
    /\ stats.sets < MaxSets
    /\ \E k \in CacheKeys, v \in Values, ttl \in Ttls :
          /\ set(k, v, ttl)
          /\ lastSet' = Remember(_generate_key(k), v)
    /\ UNCHANGED <<limiterVars, now, default_ttl, memo, worker, sweeper, served, past>>

CacheDelete ==
    /\ \E k \in CacheKeys :
          /\ delete(k)
          /\ lastSet' = Forget(_generate_key(k))
    /\ UNCHANGED <<limiterVars, now, default_ttl, memo, worker, sweeper, served, past>>

CacheClear ==
    /\ clear("clear")
    /\ lastSet' = NoneSet
    /\ UNCHANGED <<limiterVars, now, default_ttl, memo, worker, sweeper, served, past>>

CacheInvalidateAll ==
    /\ invalidate_all_cache
    /\ lastSet' = NoneSet
    /\ UNCHANGED <<limiterVars, now, default_ttl, memo, worker, sweeper, served, past>>

CacheCleanup ==
    /\ cleanup_expired
    /\ UNCHANGED <<limiterVars, now, default_ttl, lastSet, memo, worker, sweeper, served, past>>

CachePatterns == {<<"k">>, <<>>}

CachePattern ==
    /\ \E p \in CachePatterns : invalidate_cache_pattern(p)
    /\ lastSet' = [k \in DOMAIN lastSet \cap DOMAIN cache' |-> lastSet[k]]
    /\ UNCHANGED <<limiterVars, now, default_ttl, memo, worker, sweeper, served, past>>

\* Once the clock has moved no operation counts as the last one any more.
CacheTick ==
    /\ Tick(CacheInstants)
    /\ ret' = Returned("idle", NoKey, PyNone, FALSE, 0)
    /\ lastSet' = NoneSet
    /\ UNCHANGED <<limiterVars, cache, stats, default_ttl, memo, worker, sweeper, served, past>>

NextCache ==
    \/ CacheGet
    \/ CacheSet
    \/ CacheDelete
    \/ CacheClear
    \/ CacheInvalidateAll
    \/ CacheCleanup
    \/ CachePattern
    \/ CacheTick

SpecCache == Init /\ [][NextCache]_vars

(***************************************************************************)
(* Properties of the cache store.                                          *)
(***************************************************************************)
\* Expiry as the contract states it: older than the ttl, never without one.
Expired(entry) ==
    /\ entry.ttl_seconds # None
    /\ now - entry.created_at > entry.ttl_seconds[1]

IsAbsent(r) == r.value = PyNone /\ ~r.found

StatNames == {"hits", "misses", "sets", "deletes", "evictions"}

C7_GetNeverReturnsExpired ==
    [][ret'.op = "get" =>
          LET cache_key == _generate_key(ret'.key) IN
          IF cache_key \in DOMAIN cache
          THEN IF Expired(cache[cache_key])
               THEN IsAbsent(ret') /\ cache_key \notin DOMAIN cache'
               ELSE /\ ret'.found
                    /\ ret'.value = cache[cache_key].value
                    /\ cache_key \in DOMAIN cache'
          ELSE IsAbsent(ret') /\ cache_key \notin DOMAIN cache']_vars

C7_Witness ==
    /\ ret.op = "get"
    /\ IsAbsent(ret)
    /\ stats.evictions = 1
    /\ stats.misses = 1
    /\ stats.sets = 1
    /\ cache = <<>>

C7_WitnessAtTtl ==
    /\ ret.op = "get"
    /\ ret.found
    /\ \E k \in DOMAIN cache :
          /\ cache[k].ttl_seconds # None
          /\ cache[k].last_accessed - cache[k].created_at = cache[k].ttl_seconds[1]

C7_WitnessNoTtl ==
    /\ ret.op = "get"
    /\ ret.found
    /\ \E k \in DOMAIN cache :
          /\ cache[k].ttl_seconds = None
          /\ cache[k].last_accessed - cache[k].created_at > 300

\* C8: delete of a stored key returns true and removes just that entry, and a
\* get of the key that follows returns absent; delete of a key that is not
\* stored returns false and leaves the entries and all five counters as they
\* were.
C8_Delete ==
    [][/\ ret'.op = "delete" =>
             LET cache_key == _generate_key(ret'.key) IN
             IF cache_key \in DOMAIN cache
             THEN /\ ret'.found
                  /\ DOMAIN cache' = DOMAIN cache \ {cache_key}
                  /\ \A k \in DOMAIN cache' : cache'[k] = cache[k]
             ELSE /\ ~ret'.found
                  /\ cache' = cache
                  /\ \A n \in StatNames : stats'[n] = stats[n]
       /\ (/\ ret.op = "delete"
           /\ ret'.op = "get"
           /\ _generate_key(ret'.key) = _generate_key(ret.key)) => IsAbsent(ret')]_vars

C8_Witness ==
    /\ ret.op = "delete"
    /\ ~ret.found
    /\ cache # <<>>
    /\ stats.deletes = 0
    /\ stats.hits = 1

C8_WitnessPresent ==
    /\ ret.op = "delete"
    /\ ret.found
    /\ stats.deletes = 1

\* C9: after clear, and after invalidate_all_cache, the store has no entries
\* and hits, misses, sets, deletes and evictions are all 0, whatever the
\* store held before.
C9_ClearResets ==
    [][ret'.op \in {"clear", "invalidate_all_cache"} =>
          /\ DOMAIN cache' = {}
          /\ \A n \in StatNames : stats'[n] = 0]_vars

C9_Witness ==
    /\ ret.op = "invalidate_all_cache"
    /\ ret.count = 2
    /\ cache = <<>>
    /\ stats = ZeroStats

C9_WitnessClear ==
    /\ ret.op = "clear"
    /\ ret.count = 2
    /\ stats = ZeroStats

\* C10: cleanup_expired removes exactly the entries that are expired when it
\* is called, returns how many they are, and leaves every other entry as it
\* was (value, created_at, ttl, access_count, last_accessed).
C10_CleanupExact ==
    [][ret'.op = "cleanup_expired" =>
          LET expired == {k \in DOMAIN cache : Expired(cache[k])} IN
          /\ DOMAIN cache' = DOMAIN cache \ expired
          /\ ret'.count = Cardinality(expired)
          /\ \A k \in DOMAIN cache' : cache'[k] = cache[k]]_vars

C10_Witness ==
    /\ ret.op = "cleanup_expired"
    /\ ret.count = 1
    /\ stats.evictions = 1
    /\ \E k \in DOMAIN cache : cache[k].access_count = 1

(***************************************************************************)
(* One caller of a function wrapped with cached(ttl=60), the decorator of  *)
(* get_stop_departures_handler: calls with equal, different and hash-equal *)
(* arguments, the function returning a value or None, and the clock moving *)
(* across the ttl.                                                         *)
(***************************************************************************)
MaxCalls == 3

MemoFunc == "get_stop_departures_handler"
MemoTtl == Some(60)
MemoArgs == {<<1>>, <<-1>>, <<-2>>}
Computable == {"v1", "v2", PyNone}
MemoInstants == {0, 60, 61, 122}

MemoCall ==
    /\ stats.hits + stats.misses < MaxCalls
    /\ \E args \in MemoArgs, computed \in Computable :
          /\ wrapper(MemoFunc, MemoTtl, args, computed)
          /\ memo' = [of |-> IF ret'.count = 1 THEN Invoked(args, computed)
                             ELSE memo.of,
                      args |-> Some(args)]
    /\ UNCHANGED <<limiterVars, now, default_ttl, lastSet, worker, sweeper, served, past>>

MemoTick ==
    /\ Tick(MemoInstants)
    /\ ret' = Returned("idle", NoKey, PyNone, FALSE, 0)
    /\ UNCHANGED <<limiterVars, cache, stats, default_ttl, lastSet, memo, worker, sweeper, served, past>>

NextMemo ==
    \/ MemoCall
    \/ MemoTick

SpecMemo == InitFresh /\ [][NextMemo]_vars

(***************************************************************************)
(* Properties of the cached wrapper.                                       *)
(***************************************************************************)
\* A step of SpecMemo that is a call of the wrapped function.
CallStep == ret'.op = "cached" /\ now' = now

\* C11: a call whose arguments were last computed at most ttl seconds ago
\* does not invoke the wrapped function and returns the result computed
\* then, whatever that result was; a call with arguments the function was
\* never computed for invokes it.
C11_MemoOnce ==
    [][CallStep =>
         LET a == memo'.args[1] IN
         /\ (a \in DOMAIN memo.of /\ now - memo.of[a].at <= MemoTtl[1])
               => (ret'.count = 0 /\ ret'.value = memo.of[a].value)
         /\ (a \notin DOMAIN memo.of) => ret'.count = 1]_vars

C12_WitnessEviction ==
    /\ ret.op = "cached"
    /\ ret.count = 1
    /\ stats.evictions = 1
    /\ stats.sets = 2

(***************************************************************************)
(* The invalidation router at work: a store warmed with entries of every   *)
(* group under keys of the form name:id, then swept by pattern and through *)
(* the CacheManager, with and without an id.                               *)
(***************************************************************************)
MaxWarm == 3

InvKeys ==
    {StrKey(<<"get_route_by_id", ":", "1", "2", "3">>),
     StrKey(<<"get_route_by_id", ":", "4", "5", "6">>),
     StrKey(<<"get_route_by_id", ":", "1", "2">>),
     StrKey(<<"get_stop_by_id", ":", "1", "2", "3">>),
     StrKey(<<"get_stop_by_id_handler", ":", "1", "2">>),
     StrKey(<<"get_stop_departures_handler", ":", "9">>),
     StrKey(<<"get_route_trips", ":", "1", "2">>),
     StrKey(<<"get_nearby_routes", ":", "7">>),
     StrKey(<<"get_system_status", ":">>),
     StrKey(<<"get_stop_routes_handler", ":", "1", "2">>),
     StrKey(<<"get_stop_by_id_handler", ":", "1", "2",
              "get_stop_routes_handler", ":", "1", "2">>)}

InvPatterns == {<<"get_route_by_id">>, <<":", "1", "2", "3">>, <<>>}

InvIds == {None, Some(<<>>), Some(<<"1", "2">>)}

InvSet ==
    /\ stats.sets < MaxWarm
    /\ \E k \in InvKeys : set(k, "v1", None)
    /\ UNCHANGED <<limiterVars, now, default_ttl, lastSet, memo, worker, sweeper, served, past>>

InvPattern ==
    /\ \E p \in InvPatterns : invalidate_cache_pattern(p)
    /\ UNCHANGED <<limiterVars, now, default_ttl, lastSet, memo, worker, sweeper, served, past>>

InvStop ==
    /\ \E id \in InvIds : invalidate_stop_cache(id)
    /\ UNCHANGED <<limiterVars, now, default_ttl, lastSet, memo, worker, sweeper, served, past>>

InvRoute ==
    /\ \E id \in InvIds : invalidate_route_cache(id)
    /\ UNCHANGED <<limiterVars, now, default_ttl, lastSet, memo, worker, sweeper, served, past>>

InvTrip ==
    /\ \E id \in InvIds : invalidate_trip_cache(id)
    /\ UNCHANGED <<limiterVars, now, default_ttl, lastSet, memo, worker, sweeper, served, past>>

InvSystem ==
    /\ invalidate_system_cache
    /\ UNCHANGED <<limiterVars, now, default_ttl, lastSet, memo, worker, sweeper, served, past>>

NextInvalidate ==
    \/ InvSet
    \/ InvPattern
    \/ InvStop
    \/ InvRoute
    \/ InvTrip
    \/ InvSystem

SpecInvalidate == InitFresh /\ [][NextInvalidate]_vars

(***************************************************************************)
(* Properties of invalidation.                                             *)
(***************************************************************************)
\* p is a substring of text.
RECURSIVE Occurs(_, _)
Occurs(p, text) ==
    IF Len(p) > Len(text) THEN FALSE
    ELSE \/ \A i \in 1 .. Len(p) : text[i] = p[i]
         \/ Occurs(p, Tail(text))

Removed == DOMAIN cache \ DOMAIN cache'

Kept == \A k \in DOMAIN cache' : k \in DOMAIN cache /\ cache'[k] = cache[k]

\* C13: invalidate_cache_pattern(p) removes exactly the stored keys that
\* contain p, leaves every other entry as it was, and returns the number of
\* keys removed.
C13_PatternExact ==
    [][ret'.op = "invalidate_cache_pattern" =>
         /\ Removed = {k \in DOMAIN cache : Occurs(ret'.key.body, k.body)}
         /\ Kept
         /\ ret'.count = Cardinality(Removed)]_vars

\* Pattern get_route_by_id has just removed get_route_by_id:123 and
\* get_route_by_id:456 and left get_stop_by_id:123.
C13_Witness ==
    /\ ret.op = "invalidate_cache_pattern"
    /\ ret.key = StrKey(<<"get_route_by_id">>)
    /\ ret.count = 2
    /\ stats.deletes = 2
    /\ DOMAIN cache = {StrKey(<<"get_stop_by_id", ":", "1", "2", "3">>)}

\* A pattern from the middle of a key has removed it.
C13_WitnessInfix ==
    /\ ret.op = "invalidate_cache_pattern"
    /\ ret.key = StrKey(<<":", "1", "2", "3">>)
    /\ ret.count = 2

Range(seq) == {seq[i] : i \in DOMAIN seq}

\* The patterns the contract assigns to an entry point called without an id.
GroupPatterns(entry_point) ==
    CASE entry_point = "invalidate_stop_cache" ->
            Range(_invalidation_patterns.stops)
            \cup Range(_invalidation_patterns.geospatial)
      [] entry_point = "invalidate_route_cache" ->
            Range(_invalidation_patterns.routes)
            \cup Range(_invalidation_patterns.geospatial)
      [] entry_point = "invalidate_trip_cache" ->
            Range(_invalidation_patterns.trips)
      [] entry_point = "invalidate_system_cache" ->
            Range(_invalidation_patterns.system)

EntryPoints ==
    {"invalidate_stop_cache", "invalidate_route_cache",
     "invalidate_trip_cache", "invalidate_system_cache"}

\* C14: an entry point called without an id removes exactly the keys that
\* match a pattern of its group - for stops and routes also those of the
\* geospatial group, for trips and system those of the own group only -
\* and leaves all other entries as they were.
C14_GroupSweep ==
    [][(ret'.op \in EntryPoints /\ ~ret'.found) =>
         /\ Removed = {k \in DOMAIN cache :
                         \E p \in GroupPatterns(ret'.op) : Occurs(p, k.body)}
         /\ Kept]_vars

\* invalidate_stop_cache() has removed a stop entry and a geospatial entry
\* and left an entry of another group.
C14_Witness ==
    /\ ret.op = "invalidate_stop_cache"
    /\ ~ret.found
    /\ ret.count = 2
    /\ stats.sets = 3
    /\ DOMAIN cache = {StrKey(<<"get_system_status", ":">>)}

\* invalidate_trip_cache() has left a geospatial entry in the store.
C14_WitnessTrip ==
    /\ ret.op = "invalidate_trip_cache"
    /\ ~ret.found
    /\ ret.count = 2
    /\ DOMAIN cache = {StrKey(<<"get_nearby_routes", ":", "7">>)}

\* The id a key of the form name:id was derived for.
IdOfKey(k) == SubSeq(k.body, 3, Len(k.body))

\* C15: an entry point called with an id removes no entry that belongs to
\* a different id.
C15_OnlyThatId ==
    [][(ret'.op \in EntryPoints /\ ret'.found) =>
         /\ \A k \in Removed : IdOfKey(k) = ret'.key.body
         /\ Kept]_vars

(***************************************************************************)
(* Request threads and the background sweep on the one shared store: each  *)
(* worker runs a few operations, statement by statement, on two keys with  *)
(* a ttl of 60 while the clock passes the ttl.                             *)
(***************************************************************************)
MaxOps == 2

RaceKeys == {StrKey(<<"k">>), StrKey(<<"j">>)}
RacePatterns == {<<"k">>}
RaceInstants == {0, 61}

RaceCall ==
    /\ \E w \in Workers :
          \/ \E k \in RaceKeys, op \in {"get", "delete"} : Enter(w, op, k, MaxOps)
          \/ EnterScan(w, "cleanup_expired", <<>>, MaxOps)
          \/ \E p \in RacePatterns :
                EnterScan(w, "invalidate_cache_pattern", p, MaxOps)
    /\ UNCHANGED <<limiterVars, now, default_ttl, ret, lastSet, memo, sweeper, served, past>>

RaceSet ==
    /\ \E w \in Workers, k \in RaceKeys : set_item(w, k, "v1", Some(60), MaxOps)
    /\ UNCHANGED <<limiterVars, now, default_ttl, ret, lastSet, memo, sweeper, served, past>>

RaceGet ==
    /\ \E w \in Workers : get_in(w) \/ get_entry(w) \/ get_del(w)
    /\ UNCHANGED <<limiterVars, now, default_ttl, ret, lastSet, memo, sweeper, served, past>>

RaceDelete ==
    /\ \E w \in Workers : delete_in(w) \/ delete_del(w)
    /\ UNCHANGED <<limiterVars, now, default_ttl, ret, lastSet, memo, sweeper, served, past>>

RaceCleanup ==
    /\ \E w \in Workers : cleanup_scan(w) \/ cleanup_del(w)
    /\ UNCHANGED <<limiterVars, now, default_ttl, ret, lastSet, memo, sweeper, served, past>>

RacePattern ==
    /\ \E w \in Workers : pattern_scan(w) \/ pattern_delete(w) \/ pattern_del(w)
    /\ UNCHANGED <<limiterVars, now, default_ttl, ret, lastSet, memo, sweeper, served, past>>

RaceTick ==
    /\ Tick(RaceInstants)
    /\ UNCHANGED <<limiterVars, cacheVars>>

NextRace ==
    \/ RaceCall
    \/ RaceSet
    \/ RaceGet
    \/ RaceDelete
    \/ RaceCleanup
    \/ RacePattern
    \/ RaceTick

SpecRace == InitFresh /\ [][NextRace]_vars

(***************************************************************************)
(* Properties of the store under concurrency.                              *)
(***************************************************************************)
\* C16: whatever the interleaving of get, set, delete, cleanup_expired and
\* pattern invalidation on the shared store, no operation fails: no worker
\* is ever ended by an exception.
C16_NoOperationFails == \A w \in Workers : worker[w].pc # "raised"

(***************************************************************************)
(* check_rate_limit on every kind of input: paths of the four categories,  *)
(* clients named by an API key, a forwarded address, the peer address or   *)
(* nothing at all, sizes absent, within and over the limits, while an      *)
(* operator installs profiles - also under a category of his own - and     *)
(* resets clients.                                                         *)
(***************************************************************************)
TotalThreads == {1, 2}

TotalPaths == {{}, {"/search"}, {"/export"}, {"/system"}, {"/search", "/system"}}

\* Thread 1 serves the client at h1, directly and through a proxy, on
\* every path, and a client with an API key; thread 2 serves a client without
\* any address.
TotalRequests ==
    {Request(None, "h1", None, p) : p \in TotalPaths}
    \cup {Request(Some(""), "h2", Some("h1"), {}),
          Request(Some("K"), "h1", None, {"/system"})}

OddRequests ==
    {Request(None, NoClient, Some(""), {"/system"})}

TotalRequestsOf(t) == IF t = 1 THEN TotalRequests ELSE OddRequests

TotalClients == {_get_client_id(r) : r \in TotalRequests \cup OddRequests}

TotalCategories == {"system", "admin"}

TotalInstants == {0, MaxTime}

TotalSizes(r) ==
    IF r.path = {} /\ _get_endpoint_category(r.path) \in DOMAIN limits
    THEN SizeInputs(limits[_get_endpoint_category(r.path)])
    ELSE {<<None, None>>}

TotalBegin ==
    /\ \E t \in TotalThreads : \E r \in TotalRequestsOf(t) :
          \E sz \in TotalSizes(r) : Begin(t, r, sz[1], sz[2])
    /\ UNCHANGED <<nCalls, cacheVars>>

TotalAcquire ==
    /\ \E t \in TotalThreads : AcquireLock(t, MaxLedger - 1)
    /\ UNCHANGED <<nCalls, cacheVars>>

TotalCheck ==
    /\ \E t \in TotalThreads : CheckUsage(t)
    /\ UNCHANGED <<nCalls, cacheVars>>

TotalCommit ==
    /\ \E t \in TotalThreads : Commit(t)
    /\ UNCHANGED <<nCalls, cacheVars>>

TotalReturn ==
    /\ \E t \in TotalThreads : Return(t)
    /\ UNCHANGED <<nCalls, cacheVars>>

TotalUpdate ==
    /\ \E c \in TotalCategories : update_limits(c, TightProfile)
    /\ UNCHANGED <<nCalls, cacheVars>>

TotalReset ==
    /\ \E c \in TotalClients : reset_client_usage(c)
    /\ UNCHANGED <<nCalls, cacheVars>>

TotalTick ==
    /\ Tick(TotalInstants)
    /\ UNCHANGED <<limiterVars, cacheVars>>

NextTotal ==
    \/ TotalBegin
    \/ TotalAcquire
    \/ TotalCheck
    \/ TotalCommit
    \/ TotalReturn
    \/ TotalUpdate
    \/ TotalReset
    \/ TotalTick

SpecTotal == InitFresh /\ [][NextTotal]_vars

(***************************************************************************)
(* Totality of check_rate_limit and the content of its info.               *)
(***************************************************************************)
\* C17: no call of check_rate_limit is ended by an exception; the lock is
\* only ever held by a call inside its critical section, which runs to its
\* end, so every call comes to return; and what a call returns is a pair of
\* a boolean and an info, a rejection being the boolean FALSE with the
\* exceeded constraint named in the info.
C17_NeverRaises ==
    /\ \A t \in TotalThreads :
          /\ pc[t] # "raised"
          /\ pc[t] = "done" =>
                /\ result[t] # NoResult
                /\ Outcome(t).allowed \in BOOLEAN
                /\ Outcome(t).allowed <=> Outcome(t).info.exceeded = None
    /\ lock # NoThread => pc[lock] \in {"locked", "checked"}

\* A client without an address has been rejected on a system path under a
\* table that holds a category no path maps to.
C17_Witness ==
    /\ "admin" \in DOMAIN limits
    /\ \E t \in TotalThreads :
          /\ pc[t] = "done"
          /\ call[t].client = <<"ip", "unknown">>
          /\ "/system" \in call[t].path
          /\ ~Outcome(t).allowed

\* C18: the info of a rejected call names the exceeded constraint and holds
\* a retry delay, so that its headers carry Retry-After; the info of an
\* admitted call holds neither and its headers carry no Retry-After.
C18_RejectionCarriesRetry ==
    \A t \in Threads :
       Finished(t) =>
          LET info == Outcome(t).info
              headers == get_rate_limit_headers(info)
          IN IF Outcome(t).allowed
             THEN /\ info.exceeded = None
                  /\ info.retry_after = None
                  /\ headers.Retry_After = None
             ELSE /\ info.exceeded # None
                  /\ info.retry_after # None
                  /\ headers.Retry_After # None

(***************************************************************************)
(* Properties of the store's statistics.                                   *)
(***************************************************************************)
\* C19: a step of get, set, delete, cleanup_expired or pattern invalidation
\* lowers none of the counters hits, misses, sets, deletes and evictions; a
\* step that lowers one is a clear, and it leaves all of them 0.
C19_CountersMonotone ==
    [][(\E n \in StatNames : stats'[n] < stats[n]) =>
         /\ ret'.op \in {"clear", "invalidate_all_cache"}
         /\ \A n \in StatNames : stats'[n] = 0]_vars

\* A pattern invalidation has found nothing to delete after every counter
\* had grown.
C19_Witness ==
    /\ ret.op = "invalidate_cache_pattern"
    /\ ret.count = 0
    /\ stats.deletes >= 1
    /\ stats.sets >= 2
    /\ stats.hits + stats.misses >= 1

\* C20: the cache_size of get_stats is the number of stored entries that
\* have not expired.
C20_SizeCountsLive ==
    get_stats.cache_size =
        Cardinality({k \in DOMAIN cache : ~Expired(cache[k])})

(***************************************************************************)
(* Order of the ledger.                                                    *)
(***************************************************************************)
\* C21: whatever the interleaving of check_rate_limit calls, resets and
\* pruning, every client's ledger is ordered by non-decreasing timestamp (and
\* no record is stamped later than the clock).
C21_LedgerOrdered ==
    \A c \in DOMAIN usage :
        /\ \A i, j \in DOMAIN usage[c] :
              i < j => usage[c][i].timestamp <= usage[c][j].timestamp
        /\ \A i \in DOMAIN usage[c] : usage[c][i].timestamp <= now

\* A ledger of two records stamped at different instants, the older one past
\* the retention horizon, while another call is waiting for the lock.
C21_Witness ==
    \E c \in DOMAIN usage :
        /\ Len(usage[c]) = 2
        /\ usage[c][1].timestamp < usage[c][2].timestamp
        /\ now - usage[c][1].timestamp > RetentionSeconds
        /\ \E t \in Threads : pc[t] = "wait"

(***************************************************************************)
(* Pruning and counting on every ordered ledger: the ledger of one client  *)
(* is drawn from the ordered sequences over stamps whose ages fall on both *)
(* sides of the minute, hour and day windows and of the retention horizon, *)
(* and one thread then calls check_rate_limit on it.                       *)
(***************************************************************************)
LedgerThread == 1
LedgerRequest == Request(None, "h1", None, {})
LedgerClient == _get_client_id(LedgerRequest)

LedgerInstants == {RetentionSeconds, RetentionSeconds + 1}

LedgerStamps ==
    {0, 1, RetentionSeconds - DayWindow, RetentionSeconds - HourWindow,
     RetentionSeconds - MinuteWindow}

OrderedLedgers ==
    {l \in UNION {[1 .. n -> LedgerStamps] : n \in 0 .. MaxLedger} :
        \A i \in 1 .. Len(l) - 1 : l[i] <= l[i + 1]}

InitLedger ==
    /\ \E l \in OrderedLedgers :
          usage = (LedgerClient :> [i \in DOMAIN l |-> UsageRecord(l[i], 0, 0)])
    /\ limits = InitLimits
    /\ lock = NoThread
    /\ now \in LedgerInstants
    /\ pc = [t \in AllThreads |-> "idle"]
    /\ call = [t \in AllThreads |-> IdleCall]
    /\ result = [t \in AllThreads |-> NoResult]
    /\ nCalls = 0
    /\ InitCacheWith(Some(300))

LedgerBegin ==
    /\ Begin(LedgerThread, LedgerRequest, None, None)
    /\ UNCHANGED <<nCalls, cacheVars>>

LedgerAcquire ==
    /\ AcquireLock(LedgerThread, MaxLedger + 1)
    /\ UNCHANGED <<nCalls, cacheVars>>

LedgerCheck ==
    /\ CheckUsage(LedgerThread)
    /\ UNCHANGED <<nCalls, cacheVars>>

LedgerCommit ==
    /\ Commit(LedgerThread)
    /\ UNCHANGED <<nCalls, cacheVars>>

LedgerReturn ==
    /\ Return(LedgerThread)
    /\ UNCHANGED <<nCalls, cacheVars>>

LedgerTick ==
    /\ Tick(LedgerInstants)
    /\ UNCHANGED <<limiterVars, cacheVars>>

NextLedger ==
    \/ LedgerBegin
    \/ LedgerAcquire
    \/ LedgerCheck
    \/ LedgerCommit
    \/ LedgerReturn
    \/ LedgerTick

SpecLedger == InitLedger /\ [][NextLedger]_vars

\* The number of records of a ledger aged at most w at the current time.
Within(records, w) ==
    Cardinality({i \in DOMAIN records : now - records[i].timestamp <= w})

\* C22: the pruning step of a call removes from the caller's ledger exactly
\* the records older than the 25 hour horizon, so that right after it none
\* of the client's records is older than the horizon; each removed record is
\* outside the minute, hour and day windows, so the counts the call goes on
\* with are those of the ledger as it was before pruning.
C22_PruningExact ==
    [][(pc[LedgerThread] = "locked" /\ pc'[LedgerThread] = "checked") =>
         LET before == Records(LedgerClient)
             after == usage'[LedgerClient]
         IN /\ after = SelectSeq(before, NotOverAge)
            /\ \A i \in DOMAIN after :
                  now' - after[i].timestamp <= RetentionSeconds
            /\ \A i \in DOMAIN before :
                  ~NotOverAge(before[i]) =>
                      now - before[i].timestamp > DayWindow
            /\ call'[LedgerThread].usage =
                  [minute |-> Within(before, MinuteWindow),
                   hour |-> Within(before, HourWindow),
                   day |-> Within(before, DayWindow)]]_vars

\* One instant past the horizon of a record stamped 0: the call has pruned,
\* what is left starts with a record aged exactly 25 hours, followed by one
\* aged a minute and a second, and the call's day count is that one record.
C22_Witness ==
    /\ pc[LedgerThread] = "checked"
    /\ now = RetentionSeconds + 1
    /\ Len(usage[LedgerClient]) = 2
    /\ usage[LedgerClient][1].timestamp = 1
    /\ usage[LedgerClient][2].timestamp = RetentionSeconds - MinuteWindow
    /\ call[LedgerThread].usage = [minute |-> 0, hour |-> 1, day |-> 1]

\* C24: on every time-ordered ledger and for each of the windows 60, 3600 and
\* 86400, the backward scan that stops at the first record older than the
\* window counts exactly the records aged at most the window, a record aged
\* exactly the window included.
C24_ScanCountsAll ==
    \A c \in DOMAIN usage : \A w \in {MinuteWindow, HourWindow, DayWindow} :
        _count_requests_in_window(usage[c], w, now) = Within(usage[c], w)

\* A ledger whose three records are aged exactly a day, an hour and a minute:
\* the call counts one, two and three of them.
C24_Witness ==
    /\ pc[LedgerThread] = "checked"
    /\ now = RetentionSeconds
    /\ Len(usage[LedgerClient]) = 3
    /\ now - usage[LedgerClient][1].timestamp = DayWindow
    /\ now - usage[LedgerClient][2].timestamp = HourWindow
    /\ now - usage[LedgerClient][3].timestamp = MinuteWindow
    /\ call[LedgerThread].usage = [minute |-> 1, hour |-> 2, day |-> 3]

(***************************************************************************)
(* Isolation of clients.                                                   *)
(***************************************************************************)
OthersKept(client_id) ==
    \A d \in (DOMAIN usage \cup DOMAIN usage') \ {client_id} :
        d \in DOMAIN usage /\ d \in DOMAIN usage' /\ usage'[d] = usage[d]

\* C27: the steps of a call made for one client leave every other client's
\* ledger as it was; the usage figures of the call are the counts of that
\* client's own ledger at the time of the call and the decision follows from
\* these figures, the call's profile and its sizes alone; and a step outside
\* the calls (a reset) empties one client's ledger and leaves the others.
C27_ClientsIsolated ==
    [][/\ \A t \in TotalThreads :
          LET c == call[t].client
              lim == call[t].limits
              u == call[t].usage
          IN /\ (pc[t] = "locked" /\ pc'[t] = "checked") =>
                   /\ OthersKept(c)
                   /\ call'[t].usage =
                         [minute |-> Within(Records(c), MinuteWindow),
                          hour |-> Within(Records(c), HourWindow),
                          day |-> Within(Records(c), DayWindow)]
             /\ (pc[t] = "checked" /\ pc'[t] = "done") =>
                   /\ OthersKept(c)
                   /\ result'[t][1].info.current_usage = u
                   /\ result'[t][1].allowed =
                         (/\ u.minute < lim.requests_per_minute
                          /\ u.hour < lim.requests_per_hour
                          /\ u.day < lim.requests_per_day
                          /\ ~ExportOver(t)
                          /\ ~RequestOver(t))
       /\ (\A t \in TotalThreads :
               /\ ~(pc[t] = "locked" /\ pc'[t] = "checked")
               /\ ~(pc[t] = "checked" /\ pc'[t] = "done")) =>
             \/ usage' = usage
             \/ \E c \in DOMAIN usage :
                   usage'[c] = <<>> /\ usage[c] # <<>> /\ OthersKept(c)]_vars

\* A call of one client was admitted and, before it returns, that client's
\* ledger has been reset: it is empty, and the ledger of another client
\* still holds its record.
C27_Witness ==
    \E t \in TotalThreads :
        /\ Finished(t)
        /\ Outcome(t).allowed
        /\ call[t].client \in DOMAIN usage
        /\ Records(call[t].client) = <<>>
        /\ \E d \in DOMAIN usage : d # call[t].client /\ Len(usage[d]) >= 1

(***************************************************************************)
(* One client that retries: a single thread calls the default and the      *)
(* export category for one client under the tuned profiles, an export      *)
(* always stating its size, while the clock moves over the ends of the     *)
(* minute, hour and day windows.  The history records the window           *)
(* rejections since the client's last admitted request and the categories  *)
(* it was admitted under.                                                  *)
(***************************************************************************)
RetryThread == 1

RetryRequests == {Request(None, "h1", None, p) : p \in {{}, {"/export"}}}
RetryClient == <<"ip", "h1">>

RetryInstants ==
    {0, MinuteWindow, MinuteWindow + 1, HourWindow, HourWindow + 1,
     DayWindow, DayWindow + 1}

RetrySize(r) ==
    IF _get_endpoint_category(r.path) = "export" THEN Some(1) ELSE None

RetryBegin ==
    /\ \E r \in RetryRequests : Begin(RetryThread, r, RetrySize(r), None)
    /\ UNCHANGED <<nCalls, cacheVars>>

RetryAcquire ==
    /\ AcquireLock(RetryThread, MaxLedger)
    /\ UNCHANGED <<nCalls, cacheVars>>

RetryCheck ==
    /\ CheckUsage(RetryThread)
    /\ past' = [past EXCEPT !.at = now]
    /\ UNCHANGED <<nCalls, cache, stats, default_ttl, ret, lastSet, memo,
                   worker, sweeper, served>>

Rejection(category, window, at) ==
    [category |-> category, window |-> window, at |-> at]

RetryCommit ==
    /\ Commit(RetryThread)
    /\ LET category == _get_endpoint_category(call[RetryThread].path)
           outcome == result'[RetryThread][1]
       IN past' =
            IF outcome.allowed
            THEN [past EXCEPT !.rejected = {},
                              !.admitted = @ \cup {category}]
            ELSE IF outcome.info.retry_after # None
            THEN [past EXCEPT !.rejected =
                     @ \cup {Rejection(category, outcome.info.exceeded[1],
                                       past.at)}]
            ELSE past
    /\ UNCHANGED <<nCalls, cache, stats, default_ttl, ret, lastSet, memo,
                   worker, sweeper, served>>

RetryReturn ==
    /\ Return(RetryThread)
    /\ UNCHANGED <<nCalls, cacheVars>>

RetryTick ==
    /\ Tick(RetryInstants)
    /\ UNCHANGED <<limiterVars, cacheVars>>

NextRetry ==
    \/ RetryBegin
    \/ RetryAcquire
    \/ RetryCheck
    \/ RetryCommit
    \/ RetryReturn
    \/ RetryTick

SpecRetry == InitTuned /\ [][NextRetry]_vars

(***************************************************************************)
(* The retry delay and the shared ledger.                                  *)
(***************************************************************************)
RetryCommits == pc[RetryThread] = "checked" /\ pc'[RetryThread] = "done"

\* C26: the retry delay of a window rejection is enough: when a call was
\* rejected for a window at time t and no request of the client was admitted
\* since, a call of the same category made at t plus the window's length
\* (60, 3600 or 86400 seconds) or later is not rejected for that window.  The
\* time of a call is the instant at which it counts the ledger.
C26_RetryAfterSuffices ==
    [][RetryCommits =>
         \A r \in past.rejected :
            (/\ r.category = _get_endpoint_category(call[RetryThread].path)
             /\ past.at >= r.at + WindowSeconds(r.window))
            => result'[RetryThread][1].info.exceeded # Some(r.window)]_vars

\* C26, short of the boundary: a call made strictly later than t plus the
\* window's length is not rejected for that window.
C26_LaterSuffices ==
    [][RetryCommits =>
         \A r \in past.rejected :
            (/\ r.category = _get_endpoint_category(call[RetryThread].path)
             /\ past.at > r.at + WindowSeconds(r.window))
            => result'[RetryThread][1].info.exceeded # Some(r.window)]_vars

\* A call has been rejected for the minute window exactly sixty seconds
\* after a minute rejection of the same category, nothing admitted between.
C26_Witness ==
    /\ Finished(RetryThread)
    /\ Outcome(RetryThread).info.exceeded = Some("requests_per_minute")
    /\ \E r \in past.rejected :
          /\ r.window = "requests_per_minute"
          /\ r.category = _get_endpoint_category(call[RetryThread].path)
          /\ past.at = r.at + MinuteWindow

\* The number of records aged at most w when the call counted the ledger.
CountedWithin(records, w) ==
    Cardinality({i \in DOMAIN records : past.at - records[i].timestamp <= w})

\* C28: a client has one ledger for all categories: an admitted request of
\* any category is appended to it, the counts of a call are taken over all of
\* its records, and a call whose category allows no more requests per minute
\* than the ledger holds within the last minute is rejected for the minute
\* window, whether or not that category was ever admitted before.
C28_LedgerShared ==
    [][RetryCommits =>
         LET c == call[RetryThread]
             records == Records(c.client)
             outcome == result'[RetryThread][1]
         IN /\ outcome.allowed =>
                  /\ Len(usage'[c.client]) = Len(records) + 1
                  /\ SubSeq(usage'[c.client], 1, Len(records)) = records
            /\ ~outcome.allowed => usage'[c.client] = records
            /\ outcome.info.current_usage =
                  [minute |-> CountedWithin(records, MinuteWindow),
                   hour |-> CountedWithin(records, HourWindow),
                   day |-> CountedWithin(records, DayWindow)]
            /\ CountedWithin(records, MinuteWindow) >= c.limits.requests_per_minute
                  => /\ ~outcome.allowed
                     /\ outcome.info.exceeded = Some("requests_per_minute")]_vars

\* An export request has been rejected for the minute window on the strength
\* of a request admitted under the default category, the client never having
\* been admitted under export.
C28_Witness ==
    /\ Finished(RetryThread)
    /\ _get_endpoint_category(call[RetryThread].path) = "export"
    /\ Outcome(RetryThread).info.exceeded = Some("requests_per_minute")
    /\ past.admitted = {"default"}
    /\ Len(Records(RetryClient)) >= 1

(***************************************************************************)
(* The counts of the CacheManager entry points.                            *)
(***************************************************************************)
\* C29: the number an invalidate_stop/route/trip/system_cache call returns is
\* the number of entries it removed, a key that several of its patterns match
\* counting once; the store shrinks by that number and the deletes counter
\* grows by it.
C29_CountIsRemoved ==
    [][ret'.op \in EntryPoints =>
         /\ ret'.count = Cardinality(Removed)
         /\ Kept
         /\ Cardinality(DOMAIN cache') = Cardinality(DOMAIN cache) - ret'.count
         /\ stats'.deletes = stats.deletes + ret'.count
         /\ \A n \in StatNames \ {"deletes"} : stats'[n] = stats[n]]_vars

\* invalidate_stop_cache("12") has removed the only three entries ever set:
\* the two keys of stop 12 and the key that holds both of their patterns.
C29_Witness ==
    /\ ret.op = "invalidate_stop_cache"
    /\ ret.found
    /\ ret.count = 3
    /\ stats.sets = 3
    /\ stats.deletes = 3
    /\ cache = <<>>

(***************************************************************************)
(* Bookkeeping of the cache counters.                                      *)
(***************************************************************************)
Lookups == stats.hits + stats.misses

\* C30: over get, set, delete, cleanup_expired and clear made one after the
\* other, every get adds one to hits + misses and nothing else changes that
\* sum but a clear, which puts it back to zero, so the sum is the number of
\* gets since the last clear; an entry removed because it had expired, by a
\* get or by the sweep, is counted in evictions and an entry removed by delete
\* in deletes; and stored entries + deletes + evictions never exceed sets.
C30_CountersAddUp ==
    /\ [](Cardinality(DOMAIN cache) + stats.deletes + stats.evictions
            <= stats.sets)
    /\ [][/\ ret'.op = "get" =>
              /\ Lookups' = Lookups + 1
              /\ Removed \subseteq {k \in DOMAIN cache : Expired(cache[k])}
              /\ stats'.evictions = stats.evictions + Cardinality(Removed)
              /\ stats'.deletes = stats.deletes
              /\ stats'.sets = stats.sets
          /\ ret'.op = "cleanup_expired" =>
              /\ Lookups' = Lookups
              /\ Removed = {k \in DOMAIN cache : Expired(cache[k])}
              /\ stats'.evictions = stats.evictions + Cardinality(Removed)
              /\ stats'.deletes = stats.deletes
              /\ stats'.sets = stats.sets
          /\ ret'.op \in {"delete", "invalidate_cache_pattern"} =>
              /\ Lookups' = Lookups
              /\ stats'.deletes = stats.deletes + Cardinality(Removed)
              /\ stats'.evictions = stats.evictions
              /\ stats'.sets = stats.sets
          /\ ret'.op = "set" =>
              /\ Lookups' = Lookups
              /\ Removed = {}
              /\ stats'.sets = stats.sets + 1
              /\ stats'.deletes = stats.deletes
              /\ stats'.evictions = stats.evictions
          /\ ret'.op \in {"clear", "invalidate_all_cache"} =>
              /\ Lookups' = 0
              /\ DOMAIN cache' = {}
          /\ ret'.op = "idle" => (cache' = cache /\ stats' = stats)]_vars

\* After two sets, one entry was evicted by a get that missed on it and the
\* other was deleted: one miss, one eviction, one delete, nothing stored.
C30_Witness ==
    /\ ret.op = "delete"
    /\ stats = [hits |-> 0, misses |-> 1, sets |-> 2, deletes |-> 1,
                evictions |-> 1]
    /\ cache = <<>>

(***************************************************************************)
(* CacheMiddleware at work: requests pass through dispatch, handlers store *)
(* and read entries, the event loop runs the sweep tasks, which may fail,  *)
(* and the clock moves over the ends of two cleanup intervals.             *)
(***************************************************************************)
MaxRequests == 3

SweepInstants ==
    {0, cleanup_interval, cleanup_interval + 1, 2 * cleanup_interval + 1,
     2 * cleanup_interval + 2}

\* What the handlers store: an entry that expires and one that does not.
SweepEntries == {<<StrKey(<<"k">>), Some(60)>>, <<TupleKey(<<"a", "b">>), None>>}

SweepRequest ==
    /\ sweeper.requests < MaxRequests
    /\ dispatch
    /\ UNCHANGED <<limiterVars, now, cache, stats, default_ttl, ret, lastSet,
                   memo, worker, served, past>>

SweepTask ==
    /\ \E raises \in BOOLEAN : _background_cleanup(raises)
    /\ UNCHANGED <<limiterVars, now, default_ttl, lastSet, memo, worker,
                   served, past>>

SweepSet ==
    /\ stats.sets < MaxSets
    /\ \E e \in SweepEntries : set(e[1], "v1", e[2])
    /\ UNCHANGED <<limiterVars, now, default_ttl, lastSet, memo, worker,
                   sweeper, served, past>>

SweepGet ==
    /\ stats.hits + stats.misses < MaxGets
    /\ get(StrKey(<<"k">>))
    /\ UNCHANGED <<limiterVars, now, default_ttl, lastSet, memo, worker,
                   sweeper, served, past>>

SweepTick ==
    /\ Tick(SweepInstants)
    /\ UNCHANGED <<limiterVars, cacheVars>>

NextSweep ==
    \/ SweepRequest
    \/ SweepTask
    \/ SweepSet
    \/ SweepGet
    \/ SweepTick

SpecSweep == InitFresh /\ [][NextSweep]_vars

\* C23: a sweep that raises in the background task is caught and reported
\* there - every task returns, each failed one having printed its error -
\* and never shows on the request path: every request, the one that scheduled
\* the sweep and those after a failed one included, gets the response of
\* call_next with the cache headers; and two sweeps are never scheduled
\* within one cleanup_interval of each other or of the construction.
C23_SweepFailureContained ==
    /\ [](/\ \A i \in DOMAIN sweeper.ended :
                sweeper.ended[i].outcome = "returned"
          /\ Cardinality({i \in DOMAIN sweeper.log :
                             sweeper.log[i] = <<"error">>})
                = Cardinality({i \in DOMAIN sweeper.ended :
                                 sweeper.ended[i].raised})
          /\ \A i \in DOMAIN sweeper.scheduled :
                sweeper.scheduled[i]
                  - (IF i = 1 THEN 0 ELSE sweeper.scheduled[i - 1])
                  > cleanup_interval
          /\ sweeper.pending + Len(sweeper.ended) = Len(sweeper.scheduled))
    /\ [][sweeper'.requests # sweeper.requests =>
            /\ sweeper'.requests = sweeper.requests + 1
            /\ sweeper'.response # NoResponse
            /\ sweeper'.response[1].body = "call_next"
            /\ sweeper'.response[1].X_Cache_Size
                  = ToString(Cardinality(DOMAIN cache))
            /\ cache' = cache /\ stats' = stats]_vars

\* The sweep scheduled by the first request past the interval has failed,
\* and a request made after the failure has had its response; a second sweep
\* has been scheduled an interval later.
C23_Witness ==
    /\ Len(sweeper.scheduled) = 2
    /\ Len(sweeper.ended) >= 1
    /\ sweeper.ended[1].raised
    /\ sweeper.requests > sweeper.ended[1].requests
    /\ sweeper.response # NoResponse

(***************************************************************************)
(* RateLimitMiddleware in front of the app: one thread takes http          *)
(* requests on plain, excluded and health-like paths and a websocket       *)
(* scope, with sizes within and over the limit, under the tuned profiles.  *)
(***************************************************************************)
GateThread == 1

GateScopes ==
    {Scope("http", Request(None, "h1", None, p)) :
        p \in {{}, {"/health"}, {"^/health", "/health"}}}
    \cup {Scope("websocket", Request(None, "h1", None, {}))}

GateInstants == {0, MinuteWindow + 1, HourWindow + 1, DayWindow + 1}

GateSizes == {1, TightProfile.request_size_limit + 1}

GateEnter ==
    /\ \E scope \in GateScopes, sz \in GateSizes : __call__(GateThread, scope, sz)
    /\ UNCHANGED <<nCalls, cache, stats, default_ttl, ret, lastSet, memo,
                   worker, sweeper, past>>

GateAcquire ==
    /\ AcquireLock(GateThread, MaxLedger)
    /\ UNCHANGED <<nCalls, cacheVars>>

GateCheck ==
    /\ CheckUsage(GateThread)
    /\ UNCHANGED <<nCalls, cacheVars>>

GateCommit ==
    /\ Commit(GateThread)
    /\ UNCHANGED <<nCalls, cacheVars>>

GateRespond ==
    /\ Respond(GateThread)
    /\ UNCHANGED <<nCalls, cache, stats, default_ttl, ret, lastSet, memo,
                   worker, sweeper, past>>

GateTick ==
    /\ Tick(GateInstants)
    /\ UNCHANGED <<limiterVars, cacheVars>>

NextGate ==
    \/ GateEnter
    \/ GateAcquire
    \/ GateCheck
    \/ GateCommit
    \/ GateRespond
    \/ GateTick

SpecGate == InitTuned /\ [][NextGate]_vars

\* C25: the wrapped app is invoked only for a scope that is not http, for an
\* excluded path - neither of which consults the limiter - and for an
\* admitted request; a rejected request is not forwarded to the app.
C25_RejectedNotForwarded ==
    \A t \in {GateThread} :
        /\ served[t].app # <<>> => served[t].outcome \in {"bypassed", "admitted"}
        /\ served[t].outcome = "bypassed" => ~served[t].consulted
        /\ Len(served[t].app) <= 1

\* What does hold: a bypassing scope reaches the app without the limiter
\* being consulted or the ledger touched, and an admitted request reaches it
\* once, with the headers.
C25_BypassAndAdmission ==
    [][\A t \in {GateThread} :
          /\ served'[t].outcome = "bypassed" =>
                (served'[t].app = <<"send">> /\ ~served'[t].consulted)
          /\ (served'[t] # served[t] /\ served'[t].outcome = "bypassed") =>
                usage' = usage
          /\ served'[t].outcome = "admitted" =>
                served'[t].app = <<"send_with_headers">>]_vars

\* A request rejected for the minute window has been passed to the app.
C25_Witness ==
    /\ served[GateThread].outcome = "rejected"
    /\ served[GateThread].app = <<"send">>
    /\ Len(Records(<<"ip", "h1">>)) >= 1
====
